---------------------------- MODULE Spec2Model ----------------------------
(***************************************************************************)
(* A model of the "Put" analysis of pygmalion: the Urn draw enumerator     *)
(* (src/urn.py), the deal/trick rules and the backward-induction solver    *)
(* (src/put.py).                                                           *)
(*                                                                         *)
(* Numbers.  The Python code divides integer weights by perm(total, k) and *)
(* works on the float quotients.  The urn model keeps, beside the integer  *)
(* weight and the denominator, the float quotient itself: a binary64 value *)
(* written as its binary digits, divided and added with the rounding to    *)
(* nearest, ties to even, of IEEE-754.  The solver model keeps             *)
(* every probability as an exact fraction: an integer numerator over a     *)
(* denominator that is carried beside it.  Continuation probabilities are  *)
(* multiples of 1/PScale.                                                  *)
(***************************************************************************)
EXTENDS Integers, Sequences, FiniteSets, TLC

\* ------------------------------------------------------------------ bounds
\* face values of the model decks, in dict (insertion) order
Faces == {1, 2, 3}
Keys == <<1, 2, 3>>
\* largest number of copies of one face value in an urn
MaxCount == 2
\* largest draw size asked of Urn.perm_k in the urn specification
MaxK == 3
\* continuation probabilities are the multiples of 1/PScale in [0, 1]
PScale == 2
\* largest number of copies of one face value in a deck handed to the solver
MaxCopies == 3
\* a float is kept as NLimbs limbs of LimbBits binary digits after the point
LimbBits == 16
NLimbs == 5
\* significant binary digits of a Python float (binary64)
Significand == 53
\* a float of magnitude 2^FloatMinExp or less rounds to 0
FloatMinExp == -1075

VARIABLES
    u_pc,      \* Urn.perm_k generator: "idle", "created", "iter", "done", "AssertionError"
    u_self,    \* the counts of the urn perm_k was called on
    u_orig,    \* the counts of that urn when perm_k was called
    u_k,       \* the draw size k
    u_idx,     \* how many tuples of itertools.product have been consumed
    u_out,     \* the tuples yielded so far, in order
    u_psum,    \* the float sum of the probabilities yielded so far, added as sum() adds them
    u_nested,  \* TRUE once the urn is a residual urn of an earlier draw
    r_call,    \* PutRules: "none", "score_match" or "score_from"
    r_tricks,  \* the three trick results handed to score_match
    r_jok,     \* <<joker_1, joker_2>>
    r_pairs,   \* the three (play1, play2) pairs handed to score_from
    r_ret,     \* the value returned
    s_deck,    \* PutRules.deck: the counts of the deck
    s_jokers,  \* the face values joker_func holds of
    s_tup,     \* the continuation tuple pw_tup of the call
    s_goal,    \* the method called on the strategy, "none" before the call
    s_stack,   \* the frames of memoized methods that are running, innermost last
    s_memo,    \* the lru_cache of the methods: (method, pw_tup) -> table
    s_err,     \* the exception the call ended with, or "none"
    rf_pc,     \* the root finder: "idle", "loop" (inside the while loop) or "done"
    rf_entry,  \* the function that was called: "root_polish" or "illinois_method"
    rf_f,      \* the function handed to illinois_method: [id, shifted]
    rf_a,      \* illinois_method: a
    rf_b,      \* illinois_method: b
    rf_fa,     \* illinois_method: fa
    rf_fb,     \* illinois_method: fb
    rf_iter,   \* illinois_method: iter
    rf_max,    \* illinois_method: max_iter
    rf_evals,  \* the points f has been evaluated at, in order
    rf_y0,     \* root_polish: TRUE when y0 was passed
    rf_ret,    \* the expressions of the return statement that ended the call
    rf_err,    \* the exception the call ended with, or "none"
    rf_kept,   \* history: the loop passes in a row that the endpoint a has stayed in the bracket
    x_memo,    \* the tables of the strategy built on the deck before it was relabeled
    x_map,     \* the relabeling of the faces of that deck: face -> new face
    v_pc,      \* second_trick_follower_value on floats: "idle", "loop", "done"
    v_deck,    \* the deck of its rules
    v_jokers,  \* the joker values of its rules
    v_tup,     \* its pw_tup, in halves
    v_idx,     \* the tuples of the outer perm_k consumed so far
    v_key,     \* the key written by the last pass
    v_entry,   \* the triple written under that key
    v_err,     \* the exception the call ended with, or "none"
    m_pw_tup,  \* the float tuple first handed to _opponent_tup
    m_tup,     \* what the calls of _opponent_tup made so far, each on the result of the last, returned
    m_calls,   \* the number of those calls
    m_deal,    \* a decided deal: its outcome and its value in the two players' tables
    g_rule,    \* PutGame.lead_rule, "none" while no game is built
    g_turn,    \* AbstractSequentialGame.__turn, what the property turn returns
    g_winner,  \* PutGame.__winner: 0, 1 or NoOne
    g_tally,   \* PutGame.__tally
    g_deal_wins, \* PutGame.__deal_wins, of which only the last entry is ever read
    g_last,    \* the last entry of PutGame.__history, <<>> while it is empty
    g_leader,  \* PutGame._first_trick_leader
    g_put,     \* PutGame.__put_state: "none", "called", "accepted"
    g_hands,   \* PutGame.__hands: for each player the count of each face held
    g_had_joker, \* PutGame.__had_joker
    g_trick,   \* PutGame.__trick
    g_tricks_won, \* PutGame.__tricks_won
    g_played,  \* PutGame.__played_card, NoCard for None
    g_err      \* the exception play() ended with, or "none"

urnVars == <<u_pc, u_self, u_orig, u_k, u_idx, u_out, u_psum, u_nested>>
rulesVars == <<r_call, r_tricks, r_jok, r_pairs, r_ret>>
solverVars == <<s_deck, s_jokers, s_tup, s_goal, s_stack, s_memo, s_err>>
rootVars ==
    <<rf_pc, rf_entry, rf_f, rf_a, rf_b, rf_fa, rf_fb, rf_iter, rf_max, rf_evals, rf_y0,
      rf_ret, rf_err, rf_kept>>
relabelVars == <<x_memo, x_map>>
valueVars == <<v_pc, v_deck, v_jokers, v_tup, v_idx, v_key, v_entry, v_err>>
mirrorVars == <<m_pw_tup, m_tup, m_calls, m_deal>>
gameVars ==
    <<g_rule, g_turn, g_winner, g_tally, g_deal_wins, g_last, g_leader, g_put, g_hands,
      g_had_joker, g_trick, g_tricks_won, g_played, g_err>>

\* ------------------------------------------------------------------ helpers
Max2(a, b) == IF a >= b THEN a ELSE b
Min2(a, b) == IF a <= b THEN a ELSE b

RECURSIVE Pow(_, _)
Pow(b, e) == IF e = 0 THEN 1 ELSE b * Pow(b, e - 1)

\* ---- numbers of the root finder and of prob_win: n / d * 2^e in lowest terms,
\* d > 0.  Sums, differences and quotients are exact when the exponents agree; of
\* two numbers whose exponents differ the smaller is absorbed in a sum (it is
\* below the last digit of the larger), and a product below the least positive
\* float rounds to 0.
Abs(n) == IF n < 0 THEN -n ELSE n
RECURSIVE Gcd(_, _)
Gcd(a, b) == IF b = 0 THEN a ELSE Gcd(b, a % b)
Num(n, d, e) ==
    IF n = 0 THEN [n |-> 0, d |-> 1, e |-> 0]
    ELSE LET g == Gcd(Abs(n), Abs(d))
             sg == IF d < 0 THEN -1 ELSE 1
         IN  [n |-> sg * (n \div g), d |-> sg * (d \div g), e |-> e]
Rat(n, d) == Num(n, d, 0)
\* Python's None where a number may stand
None == [n |-> 0, d |-> 0, e |-> 0]
NumNeg(x) == [x EXCEPT !.n = -x.n]
NumAbs(x) == [x EXCEPT !.n = Abs(x.n)]
NumAdd(x, y) ==
    IF x.n = 0 THEN y
    ELSE IF y.n = 0 THEN x
    ELSE IF x.e = y.e THEN Num(x.n * y.d + y.n * x.d, x.d * y.d, x.e)
    ELSE IF x.e > y.e THEN x ELSE y
NumSub(x, y) == NumAdd(x, NumNeg(y))
NumMul(x, y) ==
    IF x.e + y.e < FloatMinExp THEN Rat(0, 1)
    ELSE Num(x.n * y.n, x.d * y.d, x.e + y.e)
NumDiv(x, y) == Num(x.n * y.d, x.d * y.n, x.e - y.e)
NumLess(x, y) == NumSub(x, y).n < 0

\* ------------------------------------------------------------------ Urn
Urns == [Faces -> 0..MaxCount]

\* sum(self.values())
RECURSIVE SumOver(_, _)
SumOver(u, S) ==
    IF S = {} THEN 0
    ELSE LET v == CHOOSE x \in S : TRUE IN u[v] + SumOver(u, S \ {v})
TotalCount(u) == SumOver(u, DOMAIN u)

\* math.perm(n, k) = n * (n-1) * ... * (n-k+1), and 0 when k > n
RECURSIVE Perm(_, _)
Perm(n, k) == IF k = 0 THEN 1 ELSE IF k > n THEN 0 ELSE n * Perm(n - 1, k - 1)

\* deno = perm(total_count, k)
\* variant: total_count ** k, the count of draws with replacement
DenoPow(u, k) == Pow(TotalCount(u), k)
Deno(u, k) == Perm(TotalCount(u), k)

\* assert k <= total_count
\* variant: no assertion
KFitsAlways(u, k) == TRUE
\* (variant: one card must be left over)
KFitsStrict(u, k) == k < TotalCount(u)
KFits(u, k) == k <= TotalCount(u)

\* the i-th tuple (from 0) of itertools.product(self.keys(), repeat=k): the
\* rightmost position advances fastest
ProductTuple(i, k) ==
    [j \in 1..k |-> Keys[((i \div Pow(Len(Keys), k - j)) % Len(Keys)) + 1]]
ProductSize(k) == Pow(Len(Keys), k)

\* the inner loop of perm_k over one tuple: wt *= acop[av]; acop[av] -= 1
\* (variant: the count of a drawn value is not decremented)
RECURSIVE DrawLoopKeep(_, _, _, _)
DrawLoopKeep(acop, wt, atup, i) ==
    IF i > Len(atup) THEN [wt |-> wt, acop |-> acop]
    ELSE DrawLoopKeep(acop, wt * acop[atup[i]], atup, i + 1)

RECURSIVE DrawLoop(_, _, _, _)
DrawLoop(acop, wt, atup, i) ==
    IF i > Len(atup) THEN [wt |-> wt, acop |-> acop]
    ELSE DrawLoop([acop EXCEPT ![atup[i]] = @ - 1], wt * acop[atup[i]], atup, i + 1)

DrawTuple(u, atup) == DrawLoop(u, 1, atup, 1)

\* ---- Python floats below Base, kept exactly as the limbs of their binary
\* expansion: limb 1 is the integer part, limbs 2 .. NLimbs + 1 the digits after
\* the point, LimbBits binary digits to a limb
Base == Pow(2, LimbBits)
NDigits == (NLimbs + 1) * LimbBits
FloatZero == [j \in 1..(NLimbs + 1) |-> 0]
FloatOne == [j \in 1..(NLimbs + 1) |-> IF j = 1 THEN 1 ELSE 0]

\* the limb that holds binary digit g (digit 1 the most significant), and the
\* worth of that digit within its limb
LimbOf(g) == (g - 1) \div LimbBits + 1
WorthOf(g) == Pow(2, LimbBits - 1 - ((g - 1) % LimbBits))
DigitAt(x, g) == (x[LimbOf(g)] \div WorthOf(g)) % 2

\* the number of binary digits of n
RECURSIVE BitLen(_)
BitLen(n) == IF n = 0 THEN 0 ELSE 1 + BitLen(n \div 2)

\* the first non-zero binary digit of x # 0
Lead(x) ==
    LET k == CHOOSE j \in DOMAIN x : x[j] # 0 /\ \A i \in 1..(j - 1) : x[i] = 0
    IN  k * LimbBits - BitLen(x[k]) + 1

\* the exact sum of two limb strings: limbs 1 .. j, given the carry into limb j
RECURSIVE AddFrom(_, _, _, _)
AddFrom(a, b, j, carry) ==
    IF j = 0 THEN <<>>
    ELSE LET t == a[j] + b[j] + carry IN
         Append(AddFrom(a, b, j - 1, t \div Base), t % Base)
AddLimbs(a, b) == AddFrom(a, b, Len(a), 0)

\* rounding to Significand significant binary digits, to nearest, ties to even;
\* sticky says that the exact value has non-zero digits beyond those of x
RoundFloat(x, sticky) ==
    IF \A j \in DOMAIN x : x[j] = 0 THEN x
    ELSE LET last == Lead(x) + Significand - 1 IN
         IF last >= NDigits THEN x
         ELSE LET kl == LimbOf(last)
                  w == WorthOf(last)
                  guard == DigitAt(x, last + 1)
                  rest == \/ sticky
                          \/ x[LimbOf(last + 1)] % WorthOf(last + 1) # 0
                          \/ \E j \in (LimbOf(last + 1) + 1)..Len(x) : x[j] # 0
                  up == guard = 1 /\ (rest \/ DigitAt(x, last) = 1)
                  kept == [j \in DOMAIN x |->
                              IF j < kl THEN x[j] ELSE IF j = kl THEN x[j] - (x[j] % w) ELSE 0]
                  ulp == [j \in DOMAIN x |-> IF j = kl THEN w ELSE 0]
              IN  IF up THEN AddLimbs(kept, ulp) ELSE AddLimbs(kept, FloatZero)

\* the next n limbs of r / d by long division, and whether a remainder is left
RECURSIVE Quot(_, _, _)
Quot(r, d, n) ==
    IF n = 0 THEN [limbs |-> <<>>, sticky |-> r # 0]
    ELSE LET q == Quot((r * Base) % d, d, n - 1) IN
         [limbs |-> <<(r * Base) \div d>> \o q.limbs, sticky |-> q.sticky]

\* wt / deno of two ints, 0 <= wt and 0 < deno: the float nearest to the quotient
TrueDiv(wt, deno) ==
    LET q == Quot(wt % deno, deno, NLimbs) IN
    RoundFloat(<<wt \div deno>> \o q.limbs, q.sticky)

\* x + y of two floats
FloatAdd(x, y) == RoundFloat(AddLimbs(x, y), FALSE)

\* ---- the rest of the float arithmetic of the solver's value tables
\* a < b, limb strings of one length
LimbsLess(a, b) ==
    \E j \in DOMAIN a : a[j] < b[j] /\ \A i \in 1..(j - 1) : a[i] = b[i]

\* the exact difference a - b of two limb strings, a >= b
RECURSIVE SubFrom(_, _, _, _)
SubFrom(a, b, j, borrow) ==
    IF j = 0 THEN <<>>
    ELSE LET t == a[j] - b[j] - borrow IN
         Append(SubFrom(a, b, j - 1, IF t < 0 THEN 1 ELSE 0), IF t < 0 THEN t + Base ELSE t)
SubLimbs(a, b) == SubFrom(a, b, Len(a), 0)

\* x / 2, exact as long as the last binary digit of x is 0
HalfLimbs(x) ==
    [j \in DOMAIN x |-> x[j] \div 2 + (IF j > 1 /\ x[j - 1] % 2 = 1 THEN Base \div 2 ELSE 0)]

\* how many times y goes into r, and what is left (r < Base * y)
RECURSIVE Fits(_, _)
Fits(r, y) ==
    IF LimbsLess(r, y) THEN [q |-> 0, r |-> r]
    ELSE LET f == Fits(SubLimbs(r, y) \o <<>>, y) IN [q |-> f.q + 1, r |-> f.r]

\* the next n binary digits of r / y by long division, r < y
RECURSIVE DivBits(_, _, _)
DivBits(r, y, n) ==
    IF n = 0 THEN [q |-> 0, r |-> r]
    ELSE LET d == AddLimbs(r, r)
             bit == ~LimbsLess(d, y)
             rest == DivBits((IF bit THEN SubLimbs(d, y) ELSE d) \o <<>>, y, n - 1)
         IN  [q |-> (IF bit THEN Pow(2, n - 1) ELSE 0) + rest.q, r |-> rest.r]

\* the next n limbs of r / y, and whether a remainder is left
RECURSIVE DivLimbs(_, _, _)
DivLimbs(r, y, n) ==
    IF n = 0 THEN [limbs |-> <<>>, sticky |-> \E j \in DOMAIN r : r[j] # 0]
    ELSE LET b == DivBits(r, y, LimbBits)
             q == DivLimbs(b.r \o <<>>, y, n - 1)
         IN  [limbs |-> <<b.q>> \o q.limbs, sticky |-> q.sticky]

\* x / y of two floats, y # 0: the float nearest to the quotient
FloatDiv(x, y) ==
    LET f == Fits(x, y)
        q == DivLimbs(f.r \o <<>>, y, NLimbs)
    IN  RoundFloat(<<f.q>> \o q.limbs, q.sticky)

\* floats with a sign: neg says the value is below zero, mag is its size
Signed(neg, mag) == [neg |-> neg /\ mag # FloatZero, mag |-> mag]
\* x + y of two signed floats
SignedAdd(x, y) ==
    IF x.neg = y.neg THEN Signed(x.neg, FloatAdd(x.mag, y.mag))
    ELSE IF LimbsLess(x.mag, y.mag) THEN Signed(y.neg, RoundFloat(SubLimbs(y.mag, x.mag), FALSE))
    ELSE Signed(x.neg, RoundFloat(SubLimbs(x.mag, y.mag), FALSE))
\* h/2 * x for an integer h in -2 .. 2 and a float x: exact
HalvesTimes(h, x) ==
    Signed(h < 0, IF h = 0 THEN FloatZero ELSE IF h \in {1, -1} THEN HalfLimbs(x) ELSE x)

\* one step of sum() over what a pass yields: acc + pr, or acc when nothing is yielded
SumStep(acc, ys) == IF ys = <<>> THEN acc ELSE FloatAdd(acc, ys[1].pr)

\* acop = dict(self).copy(): the loop writes into the copy, so the urn the
\* generator runs on keeps its counts
\* variant: acop = self, the loop writes into the urn itself
SelfAliased(u, atup) == DrawTuple(u, atup).acop
SelfAfterDraw(u, atup) == u

\* what one pass of the for loop yields: nothing when wt = 0; pr is the float
\* wt/deno, wt and deno the two ints it is the quotient of
Yielded(u, k, atup) ==
    IF DrawTuple(u, atup).wt # 0
    THEN <<[tup |-> atup, wt |-> DrawTuple(u, atup).wt, deno |-> Deno(u, k),
            pr |-> TrueDiv(DrawTuple(u, atup).wt, Deno(u, k)),
            res |-> DrawTuple(u, atup).acop]>>
    ELSE <<>>

\* one pass of the for loop over tuple atup, before the test  if wt != 0
Drawn(u, deno, atup) ==
    LET d == DrawTuple(u, atup) IN
    [tup |-> atup, wt |-> d.wt, deno |-> deno, res |-> d.acop]
NonZero(y) == y.wt # 0

\* list(urn.perm_k(k)) for k <= total: the passes in product order, those of
\* weight 0 left out
PermK(u, k) ==
    LET deno == Deno(u, k) IN
    SelectSeq([i \in 1..ProductSize(k) |-> Drawn(u, deno, ProductTuple(i - 1, k))], NonZero)

UrnIdle ==
    /\ u_pc = "idle"
    /\ u_self = [v \in Faces |-> 0]
    /\ u_orig = [v \in Faces |-> 0]
    /\ u_k = 0
    /\ u_idx = 0
    /\ u_out = <<>>
    /\ u_psum = FloatZero
    /\ u_nested = FALSE

UrnInit ==
    /\ u_pc = "idle"
    /\ u_self \in Urns
    /\ u_orig = u_self
    /\ u_k = 0
    /\ u_idx = 0
    /\ u_out = <<>>
    /\ u_psum = FloatZero
    /\ u_nested = FALSE

\* g = urn.perm_k(k): a generator; nothing of its body has run yet
UrnCall ==
    /\ u_pc = "idle"
    /\ \E k \in 0..MaxK : u_k' = k
    /\ u_pc' = "created"
    /\ u_orig' = u_self
    /\ u_idx' = 0
    /\ u_out' = <<>>
    /\ u_psum' = FloatZero
    /\ UNCHANGED <<u_self, u_nested>>

\* the first next(g): total_count, the assertion, deno
UrnStart ==
    /\ u_pc = "created"
    /\ u_pc' = IF KFits(u_self, u_k) THEN "iter" ELSE "AssertionError"
    /\ UNCHANGED <<u_self, u_orig, u_k, u_idx, u_out, u_psum, u_nested>>

\* one pass of the for loop over itertools.product
UrnStep ==
    /\ u_pc = "iter"
    /\ u_idx < ProductSize(u_k)
    /\ LET atup == ProductTuple(u_idx, u_k) IN
        /\ u_out' = u_out \o Yielded(u_self, u_k, atup)
        /\ u_psum' = SumStep(u_psum, Yielded(u_self, u_k, atup))
        /\ u_self' = SelfAfterDraw(u_self, atup)
    /\ u_idx' = u_idx + 1
    /\ UNCHANGED <<u_pc, u_orig, u_k, u_nested>>

\* the product is exhausted: StopIteration
UrnFinish ==
    /\ u_pc = "iter"
    /\ u_idx >= ProductSize(u_k)
    /\ u_pc' = "done"
    /\ UNCHANGED <<u_self, u_orig, u_k, u_idx, u_out, u_psum, u_nested>>

\* a dependent draw: the caller goes on with the residual urn of one tuple
UrnRedraw ==
    /\ u_pc = "done"
    /\ ~u_nested
    /\ \E i \in DOMAIN u_out :
        /\ u_self' = u_out[i].res
        /\ u_orig' = u_out[i].res
    /\ u_nested' = TRUE
    /\ u_pc' = "idle"
    /\ u_k' = 0
    /\ u_idx' = 0
    /\ u_out' = <<>>
    /\ u_psum' = FloatZero

\* ------------------------------------------------------------------ PutRules
TrickVals == {-1, 0, 1}

\* PutRules.score_trick
ScoreTrick(play1, play2) ==
    IF play1 > play2 THEN 1 ELSE IF play1 < play2 THEN -1 ELSE 0

\* sorted([trick1, trick2, trick3])
Sorted3(a, b, c) ==
    LET lo == Min2(a, b)
        hi == Max2(a, b)
    IN  IF c <= lo THEN <<c, lo, hi>>
        ELSE IF c <= hi THEN <<lo, c, hi>>
        ELSE <<lo, hi, c>>

\* the branch  if joker_1 and joker_2
ScoreBothJokers(s) ==
    IF s[1] <= 0 /\ s[2] > 0 THEN 1
    ELSE IF s[2] < 0 /\ s[3] >= 0 THEN -1
    ELSE 0

\* the branch  elif joker_1
\* (variant: a sweep by the joker side counts as any other win)
ScoreJoker1NoSweep(s) ==
    IF s[1] <= 0 /\ s[2] > 0 THEN 1
    ELSE IF s[2] < 0 THEN -1
    ELSE IF s[2] > 0 THEN 1
    ELSE 0
ScoreJoker1(s) ==
    IF s[1] > 0 THEN -1
    ELSE IF s[1] <= 0 /\ s[2] > 0 THEN 1
    ELSE IF s[2] < 0 THEN -1
    ELSE 0

\* the branch  elif joker_2
\* (variant: a sweep by the joker side counts as any other win)
ScoreJoker2NoSweep(s) ==
    IF s[3] >= 0 /\ s[2] < 0 THEN -1
    ELSE IF s[2] > 0 THEN 1
    ELSE IF s[2] < 0 THEN -1
    ELSE 0
ScoreJoker2(s) ==
    IF s[3] < 0 THEN 1
    ELSE IF s[3] >= 0 /\ s[2] < 0 THEN -1
    ELSE IF s[2] > 0 THEN 1
    ELSE 0

\* the final branch: no joker
\* (variant: the highest trick result decides)
ScoreNoJokerTop(s) ==
    IF s[3] > 0 THEN 1 ELSE IF s[3] < 0 THEN -1 ELSE 0
ScoreNoJoker(s) ==
    IF s[2] > 0 THEN 1 ELSE IF s[2] < 0 THEN -1 ELSE 0

\* PutRules.score_match
ScoreMatch(trick1, trick2, trick3, joker_1, joker_2) ==
    LET stricks == Sorted3(trick1, trick2, trick3) IN
    IF joker_1 /\ joker_2 THEN ScoreBothJokers(stricks)
    ELSE IF joker_1 THEN ScoreJoker1(stricks)
    ELSE IF joker_2 THEN ScoreJoker2(stricks)
    ELSE ScoreNoJoker(stricks)

\* PutRules.score_from, with the joker predicate given as the set of joker values
ScoreFrom(jokers, pair1, pair2, pair3) ==
    LET joker_1 == pair1[1] \in jokers \/ pair2[1] \in jokers \/ pair3[1] \in jokers
        joker_2 == pair1[2] \in jokers \/ pair2[2] \in jokers \/ pair3[2] \in jokers
    IN  ScoreMatch(ScoreTrick(pair1[1], pair1[2]), ScoreTrick(pair2[1], pair2[2]),
                   ScoreTrick(pair3[1], pair3[2]), joker_1, joker_2)

NoPairs == <<<<0, 0>>, <<0, 0>>, <<0, 0>>>>

RulesIdle ==
    /\ r_call = "none"
    /\ r_tricks = <<0, 0, 0>>
    /\ r_jok = <<FALSE, FALSE>>
    /\ r_pairs = NoPairs
    /\ r_ret = 0

\* a direct call of the static method score_match
CallScoreMatch ==
    /\ r_call = "none"
    /\ \E t1 \in TrickVals, t2 \in TrickVals, t3 \in TrickVals, j1 \in BOOLEAN, j2 \in BOOLEAN :
        /\ r_tricks' = <<t1, t2, t3>>
        /\ r_jok' = <<j1, j2>>
        /\ r_ret' = ScoreMatch(t1, t2, t3, j1, j2)
    /\ r_call' = "score_match"
    /\ r_pairs' = NoPairs

\* a call of score_from on three played pairs, for some joker predicate
CallScoreFrom ==
    /\ r_call = "none"
    /\ \E jokers \in SUBSET Faces, p1 \in Faces \X Faces, p2 \in Faces \X Faces, p3 \in Faces \X Faces :
        /\ r_pairs' = <<p1, p2, p3>>
        /\ r_tricks' = <<ScoreTrick(p1[1], p1[2]), ScoreTrick(p2[1], p2[2]), ScoreTrick(p3[1], p3[2])>>
        /\ r_jok' = <<\E i \in 1..3 : <<p1, p2, p3>>[i][1] \in jokers,
                      \E i \in 1..3 : <<p1, p2, p3>>[i][2] \in jokers>>
        /\ r_ret' = ScoreFrom(jokers, p1, p2, p3)
    /\ r_call' = "score_from"

\* the caller takes the result; the rules keep no state
RulesReturn ==
    /\ r_call # "none"
    /\ r_call' = "none"
    /\ r_tricks' = <<0, 0, 0>>
    /\ r_jok' = <<FALSE, FALSE>>
    /\ r_pairs' = NoPairs
    /\ r_ret' = 0

\* ------------------------------------------------------------------ PutOptimalStrategy
\* a continuation tuple (prob_win_con_win, prob_win_con_tie, prob_win_con_lose),
\* each entry a numerator over PScale
Tuples == (0..PScale) \X (0..PScale) \X (0..PScale)

\* PutOptimalStrategy._get_wts
GetWts(pw_tup) ==
    [wt_win |-> pw_tup[1] - pw_tup[2], wt_lose |-> pw_tup[3] - pw_tup[2], tie |-> pw_tup[2]]

\* PutOptimalStrategy._opponent_tup
OpponentTup(pw_tup) == <<PScale - pw_tup[3], PScale - pw_tup[2], PScale - pw_tup[1]>>

\* PutOptimalStrategy._put_tup
PutTup(pw_tup) == <<PScale, pw_tup[2], 0>>

\* PutOptimalStrategy.can_call_put
CanCallPut(pw_tup) == pw_tup[1] < PScale

\* the key of _put_best:  (-x[1], x[0]), compared as Python compares tuples; the
\* match values are fractions mw / (PScale * dn)
\* (variant: key (-x[1], -x[0]), the higher card on a tie)
KeyLessHighCard(a, b) ==
    \/ a.mw * b.dn > b.mw * a.dn
    \/ a.mw * b.dn = b.mw * a.dn /\ a.move > b.move
KeyLess(a, b) ==
    \/ a.mw * b.dn > b.mw * a.dn
    \/ a.mw * b.dn = b.mw * a.dn /\ a.move < b.move

\* PutOptimalStrategy._put_best: min() keeps the first of several least elements
RECURSIVE MinFrom(_, _, _)
MinFrom(alist, best, i) ==
    IF i > Len(alist) THEN best
    ELSE MinFrom(alist, IF KeyLess(alist[i], best) THEN alist[i] ELSE best, i + 1)
PutBest(alist) == MinFrom(alist, alist[1], 2)

\* (card, *val)
Cand(card, val) == [move |-> card, mw |-> val.mw, dw |-> val.dw, dl |-> val.dl, dn |-> val.dn]

\* one pass of an inner loop over the opponent's unseen cards: the weight of the
\* draw and the outcome of the deal; ok is FALSE when a table lookup missed
Term(wt, outcome) == [ok |-> TRUE, wt |-> wt, outcome |-> outcome]
MissedTerm == [ok |-> FALSE, wt |-> 0, outcome |-> 0]

RECURSIVE SumWin(_, _)
SumWin(ts, i) == IF i = 0 THEN 0 ELSE ts[i].wt * Max2(ts[i].outcome, 0) + SumWin(ts, i - 1)
RECURSIVE SumLos(_, _)
SumLos(ts, i) == IF i = 0 THEN 0 ELSE ts[i].wt * Max2(-ts[i].outcome, 0) + SumLos(ts, i - 1)
RECURSIVE SumWt(_, _)
SumWt(ts, i) == IF i = 0 THEN 0 ELSE ts[i].wt + SumWt(ts, i - 1)

\* the body of an outer loop: the inner draw of k cards from tail_urn (its
\* assertion), numr_win, numr_los, deno and the stored triple
\*   (prob_win_con_tie + (wt_win * pr_win + wt_lose * pr_los), pr_win, pr_los)
\* kept as numerators: mw over PScale * dn, dw and dl over dn
ValueOf(pw_tup, tail_urn, k, terms) ==
    LET w == GetWts(pw_tup)
        ts == terms \o <<>>
        numr_win == SumWin(ts, Len(ts))
        numr_los == SumLos(ts, Len(ts))
        deno == SumWt(ts, Len(ts))
    IN  IF ~KFits(tail_urn, k) THEN [err |-> "AssertionError"]
        ELSE IF \E i \in DOMAIN ts : ~ts[i].ok THEN [err |-> "KeyError"]
        ELSE IF deno = 0 THEN [err |-> "ZeroDivisionError"]
        ELSE [err |-> "none",
              mw |-> w.tie * deno + w.wt_win * numr_win + w.wt_lose * numr_los,
              dw |-> numr_win, dl |-> numr_los, dn |-> deno]

Has(tbl, key) == key \in DOMAIN tbl

\* the tuples of deck.perm_k(k), as a set (a dict keeps one entry per key)
PermKeys(deck, k) == LET ys == PermK(deck, k) IN {ys[i].tup : i \in DOMAIN ys}
TailUrn(deck, tup) == DrawTuple(deck, tup).acop

\* what a table-building method ends with
Built(tab) == [err |-> "none", tab |-> tab]
Raised(e) == [err |-> e, tab |-> <<>>]
\* the end of a value method: the first pass that raised ends it
Finish(tab) ==
    IF tab = <<>> THEN Built(tab)
    ELSE IF \E key \in DOMAIN tab : tab[key].err # "none"
         THEN Raised(tab[CHOOSE key \in DOMAIN tab : tab[key].err # "none"].err)
    ELSE Built([key \in DOMAIN tab |->
                   [mw |-> tab[key].mw, dw |-> tab[key].dw, dl |-> tab[key].dl,
                    dn |-> tab[key].dn]])

\* second_trick_follower_value: key (myun1, mypl1, mypl2, thpl1, thpl2)
SecondTrickFollowerValue(deck, jokers, pw_tup) ==
    IF ~KFits(deck, 5) THEN Raised("AssertionError") ELSE
    Finish(
        [key \in PermKeys(deck, 5) |->
            LET tail_urn == TailUrn(deck, key)
                ys == IF KFits(tail_urn, 1) THEN PermK(tail_urn, 1) ELSE <<>>
            IN  ValueOf(pw_tup, tail_urn, 1,
                [i \in DOMAIN ys |->
                    Term(ys[i].wt,
                         ScoreFrom(jokers, <<key[2], key[4]>>, <<key[3], key[5]>>,
                                   <<key[1], ys[i].tup[1]>>))])])

\* the two loops that fill a decision table from a two-card hand:
\*   val1 = value.get(key of playing myun1, None); if val1 is None: continue
\*   val2 = value.get(key of playing myun2)
\* a missing val2 makes  (myun2, *val2)  raise TypeError
\* second_trick_follower_decision: key (myun1, myun2, mypl1, thpl1, thpl2)
SecfdKey(key) == key[1] >= key[2]
SecondTrickFollowerDecision(deck, secf) ==
    IF ~KFits(deck, 5) THEN Raised("AssertionError") ELSE
    LET Play1(key) == <<key[2], key[3], key[1], key[4], key[5]>>
        Play2(key) == <<key[1], key[3], key[2], key[4], key[5]>>
        keys == {key \in PermKeys(deck, 5) : SecfdKey(key) /\ Has(secf, Play1(key))}
    IN  IF \E key \in keys : ~Has(secf, Play2(key)) THEN Raised("TypeError")
        ELSE Built([key \in keys |->
                PutBest(<<Cand(key[1], secf[Play1(key)]), Cand(key[2], secf[Play2(key)])>>)])

\* second_trick_leader_value: key (myun1, mypl1, mypl2, thpl1), mypl1 >= thpl1
SeclKey(key) == key[2] >= key[4]
SecondTrickLeaderValue(deck, jokers, pw_tup, secfd) ==
    IF ~KFits(deck, 4) THEN Raised("AssertionError") ELSE
    Finish(
        [key \in {k \in PermKeys(deck, 4) : SeclKey(k)} |->
            LET tail_urn == TailUrn(deck, key)
                ys == IF KFits(tail_urn, 2) THEN PermK(tail_urn, 2) ELSE <<>>
                myun1 == key[1]
                mypl1 == key[2]
                mypl2 == key[3]
                thpl1 == key[4]
            IN  ValueOf(pw_tup, tail_urn, 2,
                [i \in DOMAIN ys |->
                    LET thun1 == ys[i].tup[1]
                        thun2 == ys[i].tup[2]
                        fkey == <<Max2(thun1, thun2), Min2(thun1, thun2), thpl1, mypl1, mypl2>>
                    IN  IF ~Has(secfd, fkey) THEN MissedTerm ELSE
                        LET thpl2 == secfd[fkey].move
                            thpl3 == IF thpl2 = thun1 THEN thun2 ELSE thun1
                        IN  Term(ys[i].wt,
                                 ScoreFrom(jokers, <<mypl1, thpl1>>, <<mypl2, thpl2>>,
                                           <<myun1, thpl3>>))])])

\* second_trick_leader_decision: key (myun1, myun2, mypl1, thpl1)
\* (variant: a tied first trick is skipped too)
SecldKeyStrict(key) == key[1] >= key[2] /\ key[3] > key[4]
SecldKey(key) == key[1] >= key[2] /\ key[3] >= key[4]
SecondTrickLeaderDecision(deck, secl) ==
    IF ~KFits(deck, 4) THEN Raised("AssertionError") ELSE
    LET Play1(key) == <<key[2], key[3], key[1], key[4]>>
        Play2(key) == <<key[1], key[3], key[2], key[4]>>
        keys == {key \in PermKeys(deck, 4) : SecldKey(key) /\ Has(secl, Play1(key))}
    IN  IF \E key \in keys : ~Has(secl, Play2(key)) THEN Raised("TypeError")
        ELSE Built([key \in keys |->
                PutBest(<<Cand(key[1], secl[Play1(key)]), Cand(key[2], secl[Play2(key)])>>)])

\* who leads the second trick: in first_trick_follower_value  if first_trick > 0
\* (the follower won), in first_trick_leader_value  if first_trick >= 0
FollowerLeadsSecond(first_trick) == first_trick > 0
LeaderLeadsOnWin(first_trick) == first_trick > 0
LeaderLeadsAgain(first_trick) == first_trick >= 0

\* the second and third tricks of first_trick_follower_value, for one draw
\* (thun1, thun2) of the leader's unseen cards; "my" is the first-trick follower
FollowerRoute(jokers, key, thun1, thun2, wt, secld, secfd, alt_secld, alt_secfd) ==
    LET myun1 == key[1]
        myun2 == key[2]
        mypl1 == key[3]
        thpl1 == key[4]
        first_trick == ScoreTrick(mypl1, thpl1)
        myhi == Max2(myun1, myun2)
        mylo == Min2(myun1, myun2)
        thhi == Max2(thun1, thun2)
        thlo == Min2(thun1, thun2)
        Score(mypl2, thpl2) ==
            LET mypl3 == IF mypl2 = myun2 THEN myun1 ELSE myun2
                thpl3 == IF thpl2 = thun2 THEN thun1 ELSE thun2
            IN  Term(wt, ScoreFrom(jokers, <<mypl1, thpl1>>, <<mypl2, thpl2>>, <<mypl3, thpl3>>))
    IN  IF FollowerLeadsSecond(first_trick)
        THEN \* we lead in the second trick
             IF ~Has(secld, <<myhi, mylo, mypl1, thpl1>>) THEN MissedTerm ELSE
             LET mypl2 == secld[<<myhi, mylo, mypl1, thpl1>>].move IN
             IF ~Has(alt_secfd, <<thhi, thlo, thpl1, mypl1, mypl2>>) THEN MissedTerm ELSE
             Score(mypl2, alt_secfd[<<thhi, thlo, thpl1, mypl1, mypl2>>].move)
        ELSE \* tied or lost: they lead, we follow
             IF ~Has(alt_secld, <<thhi, thlo, thpl1, mypl1>>) THEN MissedTerm ELSE
             LET thpl2 == alt_secld[<<thhi, thlo, thpl1, mypl1>>].move IN
             IF ~Has(secfd, <<myhi, mylo, mypl1, thpl1, thpl2>>) THEN MissedTerm ELSE
             Score(secfd[<<myhi, mylo, mypl1, thpl1, thpl2>>].move, thpl2)

\* first_trick_follower_value: key (myun1, myun2, mypl1, thpl1), myun1 >= myun2
FirstTrickFollowerValue(deck, jokers, pw_tup, secld, secfd, alt_secld, alt_secfd) ==
    IF ~KFits(deck, 4) THEN Raised("AssertionError") ELSE
    Finish(
        [key \in {k \in PermKeys(deck, 4) : k[1] >= k[2]} |->
            LET tail_urn == TailUrn(deck, key)
                ys == IF KFits(tail_urn, 2) THEN PermK(tail_urn, 2) ELSE <<>>
            IN  ValueOf(pw_tup, tail_urn, 2,
                [i \in DOMAIN ys |->
                    FollowerRoute(jokers, key, ys[i].tup[1], ys[i].tup[2], ys[i].wt,
                                  secld, secfd, alt_secld, alt_secfd)])])

\* the loop that fills a decision table from a three-card hand; key[1..3] is the
\* hand, the nrest entries after it the visible cards; a missing value-table key raises KeyError
Decide3(keys, value, nrest) ==
    LET rest(key) == SubSeq(key, 4, 3 + nrest)
        Play1(key) == <<key[2], key[3], key[1]>> \o rest(key)
        Play2(key) == <<key[1], key[3], key[2]>> \o rest(key)
        Play3(key) == <<key[1], key[2], key[3]>> \o rest(key)
    IN  IF \E key \in keys : ~(Has(value, Play1(key)) /\ Has(value, Play2(key))
                               /\ Has(value, Play3(key)))
        THEN Raised("KeyError")
        ELSE Built([key \in keys |->
                PutBest(<<Cand(key[1], value[Play1(key)]), Cand(key[2], value[Play2(key)]),
                          Cand(key[3], value[Play3(key)])>>)])

Descending3(key) == key[1] >= key[2] /\ key[2] >= key[3]

\* first_trick_follower_decision: key (myun1, myun2, myun3, thpl1)
FirstTrickFollowerDecision(deck, firf) ==
    IF ~KFits(deck, 4) THEN Raised("AssertionError") ELSE
    Decide3({key \in PermKeys(deck, 4) : Descending3(key)}, firf, 1)

\* the play of first_trick_leader_value, for one draw (thun1, thun2, thun3) of the
\* follower's hand; "my" is the first-trick leader
LeaderRoute(jokers, key, th, wt, secld, secfd, alt_secld, alt_secfd, firfd) ==
    LET myun1 == key[1]
        myun2 == key[2]
        mypl1 == key[3]
        s == Sorted3(th[1], th[2], th[3])
        fkey == <<s[3], s[2], s[1], mypl1>>
    IN  IF ~Has(firfd, fkey) THEN MissedTerm ELSE
        LET thpl1 == firfd[fkey].move
            a == IF thpl1 = th[1] THEN th[2] ELSE IF thpl1 = th[2] THEN th[1] ELSE th[1]
            b == IF thpl1 = th[1] THEN th[3] ELSE IF thpl1 = th[2] THEN th[3] ELSE th[2]
            threm1 == Max2(a, b)
            threm2 == Min2(a, b)
            first_trick == ScoreTrick(mypl1, thpl1)
            Score(mypl2, thpl2) ==
                LET mypl3 == IF mypl2 = myun2 THEN myun1 ELSE myun2
                    thpl3 == IF thpl2 = threm2 THEN threm1 ELSE threm2
                IN  Term(wt, ScoreFrom(jokers, <<mypl1, thpl1>>, <<mypl2, thpl2>>, <<mypl3, thpl3>>))
        IN  IF LeaderLeadsAgain(first_trick)
            THEN \* win or tie, I lead again
                 IF ~Has(secld, <<myun1, myun2, mypl1, thpl1>>) THEN MissedTerm ELSE
                 LET mypl2 == secld[<<myun1, myun2, mypl1, thpl1>>].move IN
                 IF ~Has(alt_secfd, <<threm1, threm2, thpl1, mypl1, mypl2>>) THEN MissedTerm ELSE
                 Score(mypl2, alt_secfd[<<threm1, threm2, thpl1, mypl1, mypl2>>].move)
            ELSE \* they lead
                 IF ~Has(alt_secld, <<threm1, threm2, thpl1, mypl1>>) THEN MissedTerm ELSE
                 LET thpl2 == alt_secld[<<threm1, threm2, thpl1, mypl1>>].move IN
                 IF ~Has(secfd, <<myun1, myun2, mypl1, thpl1, thpl2>>) THEN MissedTerm ELSE
                 Score(secfd[<<myun1, myun2, mypl1, thpl1, thpl2>>].move, thpl2)

\* first_trick_leader_value: key (myun1, myun2, mypl1), myun1 >= myun2
FirstTrickLeaderValue(deck, jokers, pw_tup, secld, secfd, alt_secld, alt_secfd, firfd) ==
    IF ~KFits(deck, 3) THEN Raised("AssertionError") ELSE
    Finish(
        [key \in {k \in PermKeys(deck, 3) : k[1] >= k[2]} |->
            LET tail_urn == TailUrn(deck, key)
                ys == IF KFits(tail_urn, 3) THEN PermK(tail_urn, 3) ELSE <<>>
            IN  ValueOf(pw_tup, tail_urn, 3,
                [i \in DOMAIN ys |->
                    LeaderRoute(jokers, key, ys[i].tup, ys[i].wt,
                                secld, secfd, alt_secld, alt_secfd, firfd)])])

\* first_trick_leader_decision: key (myun1, myun2, myun3)
FirstTrickLeaderDecision(deck, firl) ==
    IF ~KFits(deck, 3) THEN Raised("AssertionError") ELSE
    Decide3({key \in PermKeys(deck, 3) : Descending3(key)}, firl, 0)

\* prob_win: the mean over the opening hands of the match value of the table entry
\* of the sorted hand; numr_win and deno are summed over deck.perm_k(k=3)
RECURSIVE ProbWinNumr(_, _, _)
ProbWinNumr(ys, firld, i) ==
    IF i = 0 THEN Rat(0, 1)
    ELSE LET s == Sorted3(ys[i].tup[1], ys[i].tup[2], ys[i].tup[3])
             e == firld[<<s[3], s[2], s[1]>>]
         IN  NumAdd(ProbWinNumr(ys, firld, i - 1), Rat(ys[i].wt * e.mw, PScale * e.dn))
ProbWin(deck, firld) ==
    IF ~KFits(deck, 3) THEN Raised("AssertionError") ELSE
    LET ys == PermK(deck, 3)
        mykeys == {LET s == Sorted3(ys[i].tup[1], ys[i].tup[2], ys[i].tup[3])
                   IN  <<s[3], s[2], s[1]>> : i \in DOMAIN ys}
        deno == SumWt(ys, Len(ys))
    IN  IF \E key \in mykeys : ~Has(firld, key) THEN Raised("KeyError")
        ELSE IF deno = 0 THEN Raised("ZeroDivisionError")
        ELSE Built(NumDiv(ProbWinNumr(ys, firld, Len(ys)), Rat(deno, 1)))

\* ---- root_polish
\* the names bound in the body of root_polish (its parameters and the names it
\* assigns), the module-level names of put.py ahead of the solver classes, and
\* the builtins the body uses; any other name raises NameError when it is read
PolishLocals == {"f", "x0", "y0", "ytol", "kwargs", "iter", "gx", "a", "fa", "b", "fb"}
PutGlobals ==
    {"copy", "cached_property", "lru_cache", "cache", "Urn", "Counter", "Enum", "IntEnum",
     "auto", "total_ordering", "csv", "rootfind", "root_polish", "PutRules", "short_deck",
     "pr", "PutOptimalStrategy", "PutCardOrder", "PutGame"}
Builtins == {"abs", "print"}
NameResolves(name) == name \in PolishLocals \cup PutGlobals \cup Builtins

\* root_polish from its entry to the call of illinois_method, y0 the value of
\* f(x0) or None: what it raises, what it returns, or the call it ends with
RootPolish(x0, y0, fx0, ytol) ==
    LET y == IF y0 = None THEN fx0 ELSE y0
        resid == NumSub(NumAdd(y, x0), Rat(1, 1))
    IN  IF y0 = None /\ ~NameResolves("verbosity") THEN [end |-> "NameError"]
        ELSE IF NumLess(NumAbs(resid), ytol) THEN [end |-> "return", ret |-> x0]
        ELSE IF NumLess(y, NumSub(Rat(1, 1), x0))
             THEN [end |-> "illinois", a |-> x0, fa |-> resid, b |-> Rat(1, 1), fb |-> None]
             ELSE [end |-> "illinois", a |-> Rat(0, 1), fa |-> None, b |-> x0, fb |-> resid]

\* iterate_tie_pwin: root_polish on x |-> prob_win((pw_start[0], x, pw_start[2])),
\* from x0 = pw_start[1] with ytol = min_diff; pwin is prob_win(pw_start)
IterateTiePwin(pw_start, pwin, min_diff) ==
    LET r == RootPolish(Rat(pw_start[2], PScale), None, pwin, min_diff) IN
    IF r.end = "NameError" THEN Raised("NameError")
    ELSE IF r.end = "return" THEN Built(<<Rat(pw_start[1], PScale), r.ret, Rat(pw_start[3], PScale)>>)
    ELSE Built(r)

\* the default min_diff of iterate_tie_pwin, 1e-7, to the nearest power of two; it
\* is only ever compared with differences of probabilities
MinDiff == Num(1, 1, -23)

\* ------------------------------------------------------------------ the memoized solver
\* the decks, joker predicates and continuation tuples of the solver
\* specification: every deck of 5 to 7 cards, every tuple of the grid and three
\* joker predicates, each varied over its whole range with the other two in a core
SolverDecks == {d \in [Faces -> 0..MaxCopies] : TotalCount(d) \in {5, 6, 7}}
SolverJokers == {{}, {3}, {2, 3}}
CoreDecks == {<<2, 2, 2>>, <<2, 2, 3>>}
CoreJokers == {{}, {3}}
CoreTuples == {<<PScale, 1, 0>>, <<1, 1, 0>>, <<0, 1, PScale>>}
SolverInputs ==
    (SolverDecks \X CoreJokers \X CoreTuples)
    \cup (CoreDecks \X SolverJokers \X CoreTuples)
    \cup (CoreDecks \X CoreJokers \X Tuples)

Frame(m, t) == [m |-> m, t |-> t]

\* a call of a memoized method from inside another: the callee, its tuple, the
\* number of positional arguments written at the call and the keywords used
CallOf(m, t, npos, kw) == [m |-> m, t |-> t, npos |-> npos, kw |-> kw]
ByKeyword(m, t) == CallOf(m, t, 0, {"pw_tup"})

\* the calls a method makes to other memoized methods, in the order of its body
CallsOf(m, t) ==
    CASE m = "secf"  -> <<>>
      [] m = "secfd" -> <<ByKeyword("secf", t)>>
      [] m = "secl"  -> <<ByKeyword("secfd", OpponentTup(t))>>
      [] m = "secld" -> <<ByKeyword("secl", t)>>
      [] m = "firf"  -> <<ByKeyword("secld", t), ByKeyword("secfd", t),
                          ByKeyword("secld", OpponentTup(t)), ByKeyword("secfd", OpponentTup(t))>>
      [] m = "firfd" -> <<ByKeyword("firf", t)>>
      [] m = "firl"  -> <<ByKeyword("secld", t), ByKeyword("secfd", t),
                          ByKeyword("secld", OpponentTup(t)), ByKeyword("secfd", OpponentTup(t)),
                          ByKeyword("firfd", OpponentTup(t))>>
      [] m = "firld" -> <<ByKeyword("firl", t)>>
      [] m = "pw"    -> <<CallOf("firld", t, 1, {})>>
      [] m = "itp"   -> <<ByKeyword("pw", t)>>
      [] m = "ftcpd" ->
            \* self.first_trick_leader_decision(self, pw_tup=...): self is written
            \* as a positional argument of the bound method
            IF CanCallPut(t)
            THEN <<CallOf("firld", t, 1, {"pw_tup"}), CallOf("firld", PutTup(t), 1, {"pw_tup"})>>
            ELSE <<CallOf("firld", t, 1, {"pw_tup"})>>

\* Python's binding of a call to a bound method whose parameters after self are
\* (pw_tup): a positional argument fills pw_tup, and pw_tup given again by keyword
\* raises TypeError
BindingError(c) ==
    LET params == <<"pw_tup">> IN
    IF c.npos > Len(params) THEN "TypeError"
    ELSE IF \E i \in 1..c.npos : params[i] \in c.kw THEN "TypeError"
    ELSE IF \E i \in (c.npos + 1)..Len(params) : params[i] \notin c.kw THEN "TypeError"
    ELSE "none"

\* the first call of the body that does not return at once from the cache
RECURSIVE FirstPending(_, _, _)
FirstPending(calls, memo, i) ==
    IF i > Len(calls) THEN 0
    ELSE IF BindingError(calls[i]) # "none" \/ <<calls[i].m, calls[i].t>> \notin DOMAIN memo THEN i
    ELSE FirstPending(calls, memo, i + 1)

\* first_trick_call_put_decision, after its calls: values are (decision, objective)
\* with objective a fraction mw / (PScale * dn)
FirstTrickCallPutDecision(pw_tup, memo) ==
    LET firld == memo[<<"firld", pw_tup>>] IN
    IF CanCallPut(pw_tup)
    THEN LET put_firld == memo[<<"firld", PutTup(pw_tup)>>] IN
         IF \E key \in DOMAIN firld : ~Has(put_firld, key) THEN Raised("KeyError")
         ELSE Built([key \in DOMAIN firld |->
                LET noval == firld[key]
                    yesval == put_firld[key]
                    yes == yesval.mw * noval.dn > noval.mw * yesval.dn
                IN  [decision |-> IF yes THEN "call_put" ELSE "knock",
                     mw |-> IF yes THEN yesval.mw ELSE noval.mw,
                     dn |-> IF yes THEN yesval.dn ELSE noval.dn]])
    ELSE \* noval, _ = npval  unpacks a 4-tuple into two names
         IF DOMAIN firld # {} THEN Raised("ValueError") ELSE Built(<<>>)

\* the body of a memoized method once the tables it calls for are in the cache
Run(m, t, memo, deck, jokers) ==
    CASE m = "secf"  -> SecondTrickFollowerValue(deck, jokers, t)
      [] m = "secfd" -> SecondTrickFollowerDecision(deck, memo[<<"secf", t>>])
      [] m = "secl"  -> SecondTrickLeaderValue(deck, jokers, t, memo[<<"secfd", OpponentTup(t)>>])
      [] m = "secld" -> SecondTrickLeaderDecision(deck, memo[<<"secl", t>>])
      [] m = "firf"  -> FirstTrickFollowerValue(deck, jokers, t,
                            memo[<<"secld", t>>], memo[<<"secfd", t>>],
                            memo[<<"secld", OpponentTup(t)>>], memo[<<"secfd", OpponentTup(t)>>])
      [] m = "firfd" -> FirstTrickFollowerDecision(deck, memo[<<"firf", t>>])
      [] m = "firl"  -> FirstTrickLeaderValue(deck, jokers, t,
                            memo[<<"secld", t>>], memo[<<"secfd", t>>],
                            memo[<<"secld", OpponentTup(t)>>], memo[<<"secfd", OpponentTup(t)>>],
                            memo[<<"firfd", OpponentTup(t)>>])
      [] m = "firld" -> FirstTrickLeaderDecision(deck, memo[<<"firl", t>>])
      [] m = "ftcpd" -> FirstTrickCallPutDecision(t, memo)
      [] m = "pw"    -> ProbWin(deck, memo[<<"firld", t>>])
      [] m = "itp"   -> IterateTiePwin(t, memo[<<"pw", t>>], MinDiff)

\* the public methods called on a fresh PutOptimalStrategy
Goals == {"firld", "ftcpd"}

SolverIdle ==
    /\ s_deck = [v \in Faces |-> 0]
    /\ s_jokers = {}
    /\ s_tup = <<0, 0, 0>>
    /\ s_goal = "none"
    /\ s_stack = <<>>
    /\ s_memo = <<>>
    /\ s_err = "none"

SolverInit ==
    /\ \E x \in SolverInputs :
        /\ s_deck = x[1]
        /\ s_jokers = x[2]
        /\ s_tup = x[3]
    /\ s_goal = "none"
    /\ s_stack = <<>>
    /\ s_memo = <<>>
    /\ s_err = "none"

\* strategy.<goal>(pw_tup) is called
SolverCall ==
    /\ s_goal = "none"
    /\ \E g \in Goals :
        /\ s_goal' = g
        /\ s_stack' = <<Frame(g, s_tup)>>
    /\ UNCHANGED <<s_deck, s_jokers, s_tup, s_memo, s_err>>

Top == s_stack[Len(s_stack)]
Pending == FirstPending(CallsOf(Top.m, Top.t), s_memo, 1)
PendingCall == CallsOf(Top.m, Top.t)[Pending]

\* the running method calls a memoized method whose table is not in the cache
SolverEnter ==
    /\ s_stack # <<>>
    /\ Pending # 0
    /\ BindingError(PendingCall) = "none"
    /\ s_stack' = Append(s_stack, Frame(PendingCall.m, PendingCall.t))
    /\ UNCHANGED <<s_deck, s_jokers, s_tup, s_goal, s_memo, s_err>>

\* the call cannot be bound: the exception unwinds every frame
SolverBindFail ==
    /\ s_stack # <<>>
    /\ Pending # 0
    /\ BindingError(PendingCall) # "none"
    /\ s_err' = BindingError(PendingCall)
    /\ s_stack' = <<>>
    /\ UNCHANGED <<s_deck, s_jokers, s_tup, s_goal, s_memo>>

\* the running method runs its body: it builds its table, caches it and returns
\* it, or it raises, nothing is cached and the exception unwinds every frame
SolverRun ==
    /\ s_stack # <<>>
    /\ Pending = 0
    /\ LET r == Run(Top.m, Top.t, s_memo, s_deck, s_jokers) IN
        IF r.err = "none"
        THEN /\ s_memo' = (<<Top.m, Top.t>> :> r.tab) @@ s_memo
             /\ s_stack' = SubSeq(s_stack, 1, Len(s_stack) - 1)
             /\ s_err' = s_err
        ELSE /\ s_memo' = s_memo
             /\ s_stack' = <<>>
             /\ s_err' = r.err
    /\ UNCHANGED <<s_deck, s_jokers, s_tup, s_goal>>

\* the same strategy is asked again once a call has returned, with p_win raised
\* and p_tie, p_lose as before; the lru_cache keeps the tables of the earlier calls
RaisedInputs == {<<2, 2, 3>>, <<1, 3, 3>>} \X CoreJokers \X Tuples
RaisedInit ==
    /\ \E x \in RaisedInputs :
        /\ s_deck = x[1]
        /\ s_jokers = x[2]
        /\ s_tup = x[3]
    /\ s_goal = "none"
    /\ s_stack = <<>>
    /\ s_memo = <<>>
    /\ s_err = "none"
SolverRecall ==
    /\ s_goal = "firld"
    /\ s_stack = <<>>
    /\ s_err = "none"
    /\ \E w \in (s_tup[1] + 1)..PScale :
        /\ s_tup' = <<w, s_tup[2], s_tup[3]>>
        /\ s_stack' = <<Frame("firld", <<w, s_tup[2], s_tup[3]>>)>>
    /\ UNCHANGED <<s_deck, s_jokers, s_goal, s_memo, s_err>>

\* the faces a deck holds
Support(deck) == {v \in Faces : deck[v] > 0}

\* ---- decks of a single face: every hand holds one legal card
\* the most copies of the face
MaxSingle == 7
SingleDecks == {d \in [Faces -> 0..MaxSingle] : TotalCount(d) >= 6 /\ Cardinality(Support(d)) = 1}
SingleInit ==
    /\ \E d \in SingleDecks, j \in SUBSET Faces, t \in Tuples :
        /\ j \in {{}, Support(d)}
        /\ s_deck = d
        /\ s_jokers = j
        /\ s_tup = t
    /\ s_goal = "none"
    /\ s_stack = <<>>
    /\ s_memo = <<>>
    /\ s_err = "none"

\* ---- a second strategy, built on the same deck with its faces relabeled
\* the order-preserving maps of the faces of a deck into Faces, other than the
\* identity
Relabelings(deck) ==
    {r \in [Support(deck) -> Faces] :
        /\ \A v, w \in Support(deck) : v < w => r[v] < r[w]
        /\ \E v \in Support(deck) : r[v] # v}
RelabelDeck(deck, r) ==
    [w \in Faces |-> IF \E v \in DOMAIN r : r[v] = w
                     THEN deck[CHOOSE v \in DOMAIN r : r[v] = w] ELSE 0]
\* (variant: the joker predicate is left as it was)
KeepJokers(jokers, r) == jokers
RelabelJokers(jokers, r) == {r[v] : v \in jokers \cap DOMAIN r}

RelabelIdle ==
    /\ x_memo = <<>>
    /\ x_map = <<>>
\* decks of two faces, on the two lowest faces
RelabelDecks ==
    {d \in [Faces -> 0..MaxCopies] : TotalCount(d) \in {6, 7} /\ Support(d) = {1, 2}}
RelabelInit ==
    /\ \E d \in RelabelDecks, j \in SUBSET {1, 2}, t \in CoreTuples :
        /\ s_deck = d
        /\ s_jokers = j
        /\ s_tup = t
        /\ x_map \in Relabelings(d)
    /\ x_memo = <<>>
    /\ s_goal = "none"
    /\ s_stack = <<>>
    /\ s_memo = <<>>
    /\ s_err = "none"
\* PutOptimalStrategy(PutRules(relabeled deck, relabeled joker_func)) is built and
\* asked for the same tables; its lru_cache entries are its own
SolverRelabel ==
    /\ s_goal = "firld"
    /\ s_stack = <<>>
    /\ s_err = "none"
    /\ x_memo = <<>>
    /\ x_memo' = s_memo
    /\ s_memo' = <<>>
    /\ s_deck' = RelabelDeck(s_deck, x_map)
    /\ s_jokers' = RelabelJokers(s_jokers, x_map)
    /\ s_stack' = <<Frame("firld", s_tup)>>
    /\ UNCHANGED <<s_tup, s_goal, s_err, x_map>>

\* strategy.iterate_tie_pwin(pw_start) is called; the frame of the call stays on
\* the stack while prob_win and the tables under it run
PolishInputs == {x \in CoreDecks \X CoreJokers \X Tuples : x[3][1] = PScale /\ x[3][3] = 0}
PolishInit ==
    /\ \E x \in PolishInputs :
        /\ s_deck = x[1]
        /\ s_jokers = x[2]
        /\ s_tup = x[3]
    /\ s_goal = "none"
    /\ s_stack = <<>>
    /\ s_memo = <<>>
    /\ s_err = "none"
IterateCall ==
    /\ s_goal = "none"
    /\ s_goal' = "itp"
    /\ s_stack' = <<Frame("itp", s_tup)>>
    /\ UNCHANGED <<s_deck, s_jokers, s_tup, s_memo, s_err>>

\* ------------------------------------------------------------------ the root finder
\* the default xtol and ytol of illinois_method and root_polish, 1e-15, to the
\* nearest power of two
XTol == Num(1, 1, -50)
YTol == Num(1, 1, -50)
\* the largest max_iter handed to the root finder
MaxIter == 2
\* the scale of the residuals of the function "tiny"
TinyExps == {-600}

\* the functions handed to the root finder
\*   half: 1/2   ident: x   mirror: 1 - x   jump: 0 below 1/3, 1 from 1/3 on
\*   line: x - 1/2   step: -1 below 1/3, 1 from 1/3 on   above: x + 1
\*   tiny: (x + 1) * 2^e, e in TinyExps   square: x*x - 1/4
UnitFuncs == {"half", "ident", "mirror", "jump"}
RealFuncs == {"line", "step", "above", "tiny", "square"}
Apply(id, x) ==
    CASE id = "half"   -> Rat(1, 2)
      [] id = "ident"  -> x
      [] id = "mirror" -> NumSub(Rat(1, 1), x)
      [] id = "jump"   -> IF NumLess(x, Rat(1, 3)) THEN Rat(0, 1) ELSE Rat(1, 1)
      [] id = "line"   -> NumSub(x, Rat(1, 2))
      [] id = "step"   -> IF NumLess(x, Rat(1, 3)) THEN Rat(-1, 1) ELSE Rat(1, 1)
      [] id = "above"  -> NumAdd(x, Rat(1, 1))
      [] id = "square" -> NumSub(NumMul(x, x), Rat(1, 4))
      [] id = "tiny"   -> LET y == NumAdd(x, Rat(1, 1))
                          IN  Num(y.n, y.d, CHOOSE e \in TinyExps : TRUE)
\* root_polish:  gx = lambda x: f(x) + x - 1
Eval(f, x) ==
    IF f.shifted THEN NumSub(NumAdd(Apply(f.id, x), x), Rat(1, 1)) ELSE Apply(f.id, x)

\* the test of the while loop of illinois_method; before the loop fb is not tested
Converged(a, b, fb, iter, max_iter, inloop) ==
    \/ NumLess(NumAbs(NumSub(a, b)), XTol)
    \/ inloop /\ NumLess(NumAbs(fb), YTol)
    \/ iter > max_iter

RootIdle ==
    /\ rf_pc = "idle"
    /\ rf_entry = "none"
    /\ rf_f = [id |-> "none", shifted |-> FALSE]
    /\ rf_a = None
    /\ rf_b = None
    /\ rf_fa = None
    /\ rf_fb = None
    /\ rf_iter = 0
    /\ rf_max = 0
    /\ rf_evals = <<>>
    /\ rf_y0 = FALSE
    /\ rf_ret = <<>>
    /\ rf_err = "none"
    /\ rf_kept = 0

\* illinois_method from its entry to the first test of the while loop: the
\* endpoints not handed in are evaluated, the bracket is asserted, and with the
\* loop never entered  return c  reads a name that was never bound
IllinoisStart(f, a, b, fa0, fb0, max_iter) ==
    LET fa == IF fa0 = None THEN Eval(f, a) ELSE fa0
        fb == IF fb0 = None THEN Eval(f, b) ELSE fb0
        evals == (IF fa0 = None THEN <<a>> ELSE <<>>) \o (IF fb0 = None THEN <<b>> ELSE <<>>)
        iter == Len(evals)
        brackets == NumMul(fa, fb).n <= 0
    IN  /\ rf_f' = f
        /\ rf_a' = a
        /\ rf_b' = b
        /\ rf_fa' = fa
        /\ rf_fb' = fb
        /\ rf_iter' = iter
        /\ rf_max' = max_iter
        /\ rf_evals' = evals
        /\ rf_ret' = <<>>
        /\ rf_kept' = 0
        /\ rf_pc' = IF brackets /\ ~Converged(a, b, fb, iter, max_iter, FALSE) THEN "loop" ELSE "done"
        /\ rf_err' = IF ~brackets THEN "AssertionError"
                      ELSE IF Converged(a, b, fb, iter, max_iter, FALSE) THEN "UnboundLocalError"
                      ELSE "none"

\* rootfind.illinois_method(f, a, b, fa, fb, max_iter=...) is called
Brackets == {<<Rat(0, 1), Rat(1, 1)>>, <<Rat(1, 1), Rat(0, 1)>>, <<Rat(0, 1), Rat(1, 2)>>}
IllinoisCall ==
    /\ rf_pc = "idle"
    /\ \E id \in RealFuncs, ab \in Brackets, givena, givenb \in BOOLEAN, max_iter \in 0..MaxIter :
        LET f == [id |-> id, shifted |-> FALSE] IN
        IllinoisStart(f, ab[1], ab[2],
                      IF givena THEN Eval(f, ab[1]) ELSE None,
                      IF givenb THEN Eval(f, ab[2]) ELSE None, max_iter)
    /\ rf_entry' = "illinois_method"
    /\ rf_y0' = FALSE

\* put.root_polish(f, x0, y0, max_iter=...) is called, y0 left out or f(x0)
StartPoints == {Rat(0, 1), Rat(1, 2), Rat(1, 1)}
RootPolishCall ==
    /\ rf_pc = "idle"
    /\ \E id \in UnitFuncs, x0 \in StartPoints, giveny \in BOOLEAN, max_iter \in 0..MaxIter :
        LET r == RootPolish(x0, IF giveny THEN Apply(id, x0) ELSE None, Apply(id, x0), YTol) IN
        /\ rf_y0' = giveny
        /\ IF r.end = "illinois"
           THEN IllinoisStart([id |-> id, shifted |-> TRUE], r.a, r.b, r.fa, r.fb, max_iter)
           ELSE /\ rf_pc' = "done"
                /\ rf_err' = IF r.end = "return" THEN "none" ELSE r.end
                /\ rf_ret' = IF r.end = "return" THEN <<r.ret>> ELSE <<>>
                /\ rf_f' = [id |-> id, shifted |-> TRUE]
                /\ rf_max' = max_iter
                /\ rf_evals' = IF giveny THEN <<>> ELSE <<x0>>
                /\ UNCHANGED <<rf_a, rf_b, rf_fa, rf_fb, rf_iter, rf_kept>>
    /\ rf_entry' = "root_polish"

\* the retained endpoint's residual left as it is: the false position method
Unhalved(fa) == fa
\* fa = fa/2
Halved(fa) == NumDiv(fa, Rat(2, 1))

\* one pass of the while loop of illinois_method, and  return c  when its test ends it
IllinoisStep ==
    /\ rf_pc = "loop"
    /\ LET slope == NumSub(rf_fb, rf_fa) IN
       IF slope.n = 0
       THEN /\ rf_pc' = "done"
            /\ rf_err' = "ZeroDivisionError"
            /\ UNCHANGED <<rf_a, rf_b, rf_fa, rf_fb, rf_iter, rf_evals, rf_ret, rf_kept>>
       ELSE LET c == NumSub(rf_b, NumDiv(NumMul(rf_fb, NumSub(rf_b, rf_a)), slope))
                fc == Eval(rf_f, c)
                iter == rf_iter + 1
                crossed == NumMul(rf_fb, fc).n < 0
                a == IF crossed THEN rf_b ELSE rf_a
                fa == IF crossed THEN rf_fb ELSE Halved(rf_fa)
                done == Converged(a, c, fc, iter, rf_max, TRUE)
            IN  /\ rf_a' = a
                /\ rf_fa' = fa
                /\ rf_b' = c
                /\ rf_fb' = fc
                /\ rf_iter' = iter
                /\ rf_evals' = Append(rf_evals, c)
                /\ rf_pc' = IF done THEN "done" ELSE "loop"
                /\ rf_ret' = IF done THEN <<c>> ELSE <<>>
                /\ rf_err' = "none"
                /\ rf_kept' = IF crossed THEN 1 ELSE rf_kept + 1
    /\ UNCHANGED <<rf_entry, rf_f, rf_max, rf_y0>>

\* ------------------------------------------------------------------ value tables on floats
\* second_trick_follower_value as Python computes it: the weights of perm_k are
\* the floats wt/deno, and numr_win, numr_los, deno, pr_win, pr_los and the match
\* value are sums, quotients and products of floats.

\* the pw_tup handed in: entries 0, 1/2 and 1, written in halves
Halves == {0, 1, 2}
ValueTuples == {<<2, 1, 0>>, <<1, 1, 0>>, <<2, 0, 2>>}
\* the decks: ValueCards cards, three to five of each face
ValueCards == 11
ValueDecks == {d \in [Faces -> 3..5] : TotalCount(d) = ValueCards}

\* numr_win, numr_los (sgn 1, -1) and deno (sgn 0) after the first i passes of
\* the inner loop:  numr_win += wt * max(outcome, 0)  and so on, from the int 0
RECURSIVE FloatSum(_, _, _)
FloatSum(ts, i, sgn) ==
    IF i = 0 THEN FloatZero
    ELSE FloatAdd(FloatSum(ts, i - 1, sgn),
                  IF sgn = 0 \/ ts[i].outcome * sgn > 0 THEN ts[i].pr ELSE FloatZero)

\* the triple stored for a key:
\*   (prob_win_con_tie + (wt_win * pr_win + wt_lose * pr_los), pr_win, pr_los)
FloatValueOf(pw_tup, terms) ==
    LET ts == terms \o <<>>
        numr_win == FloatSum(ts, Len(ts), 1)
        numr_los == FloatSum(ts, Len(ts), -1)
        deno == FloatSum(ts, Len(ts), 0)
    IN  IF deno = FloatZero THEN [err |-> "ZeroDivisionError"]
        ELSE LET pr_win == FloatDiv(numr_win, deno)
                 pr_los == FloatDiv(numr_los, deno)
                 wt_win == pw_tup[1] - pw_tup[2]
                 wt_lose == pw_tup[3] - pw_tup[2]
             IN  [err |-> "none",
                  mw |-> SignedAdd(HalvesTimes(pw_tup[2], FloatOne),
                                   SignedAdd(HalvesTimes(wt_win, pr_win),
                                             HalvesTimes(wt_lose, pr_los))),
                  dw |-> pr_win, dl |-> pr_los]

\* one pass of the outer loop of second_trick_follower_value, for the key
\* (myun1, mypl1, mypl2, thpl1, thpl2)
FloatPass(deck, jokers, pw_tup, key) ==
    LET tail_urn == TailUrn(deck, key) IN
    IF ~KFits(tail_urn, 1) THEN [err |-> "AssertionError"]
    ELSE LET ys == PermK(tail_urn, 1) IN
         FloatValueOf(pw_tup,
             [i \in DOMAIN ys |->
                 [pr |-> TrueDiv(ys[i].wt, ys[i].deno),
                  outcome |-> ScoreFrom(jokers, <<key[2], key[4]>>, <<key[3], key[5]>>,
                                        <<key[1], ys[i].tup[1]>>)]])

NoEntry == [err |-> "none", mw |-> Signed(FALSE, FloatZero), dw |-> FloatZero, dl |-> FloatZero]
ValueIdle ==
    /\ v_pc = "idle"
    /\ v_deck = [v \in Faces |-> 0]
    /\ v_jokers = {}
    /\ v_tup = <<0, 0, 0>>
    /\ v_idx = 0
    /\ v_key = <<>>
    /\ v_entry = NoEntry
    /\ v_err = "none"

\* PutOptimalStrategy(PutRules(deck, joker_func)).second_trick_follower_value(pw_tup)
\* is called
ValueInit ==
    /\ v_deck \in ValueDecks
    /\ v_jokers \in {{}, {3}}
    /\ v_tup \in ValueTuples
    /\ v_pc = IF KFits(v_deck, 5) THEN "loop" ELSE "done"
    /\ v_err = IF KFits(v_deck, 5) THEN "none" ELSE "AssertionError"
    /\ v_idx = 0
    /\ v_key = <<>>
    /\ v_entry = NoEntry

\* one turn of the for loop of deck.perm_k(k=5), on the tuple numbered v_idx of
\* itertools.product: a tuple of weight 0 is not yielded; for a tuple that is
\* yielded the outer loop of second_trick_follower_value stores its triple
ValuePass ==
    /\ v_pc = "loop"
    /\ v_idx < ProductSize(5)
    /\ LET key == ProductTuple(v_idx, 5) IN
       IF DrawTuple(v_deck, key).wt = 0
       THEN UNCHANGED <<v_pc, v_err, v_key, v_entry>>
       ELSE LET e == FloatPass(v_deck, v_jokers, v_tup, key) IN
            IF e.err = "none"
            THEN /\ v_key' = key
                 /\ v_entry' = e
                 /\ UNCHANGED <<v_pc, v_err>>
            ELSE /\ v_pc' = "done"
                 /\ v_err' = e.err
                 /\ UNCHANGED <<v_key, v_entry>>
    /\ v_idx' = v_idx + 1
    /\ UNCHANGED <<v_deck, v_jokers, v_tup>>

\* perm_k is exhausted: return secf
ValueReturn ==
    /\ v_pc = "loop"
    /\ v_idx = ProductSize(5)
    /\ v_pc' = "done"
    /\ UNCHANGED <<v_deck, v_jokers, v_tup, v_idx, v_key, v_entry, v_err>>

\* ------------------------------------------------------------------ mirrored tuples on floats
\* pw_tup as the scripts hand it in: three floats in [0, 1], here the floats
\* n / d of small ints, prob_win_con_win >= prob_win_con_tie >= prob_win_con_lose
MirrorDeno == 6
MirrorFloats ==
    {TrueDiv(x[1], x[2]) : x \in {y \in (0..MirrorDeno) \X (1..MirrorDeno) : y[1] <= y[2]}}
MirrorTuples ==
    {t \in MirrorFloats \X MirrorFloats \X MirrorFloats :
        ~LimbsLess(t[1], t[2]) /\ ~LimbsLess(t[2], t[3])}

\* 1 - p  of a float p <= 1
OneMinus(p) == RoundFloat(SubLimbs(FloatOne, p), FALSE)

\* PutOptimalStrategy._opponent_tup on floats
FloatOpponentTup(pw_tup) == <<OneMinus(pw_tup[3]), OneMinus(pw_tup[2]), OneMinus(pw_tup[1])>>

\* PutOptimalStrategy._get_wts on floats
FloatGetWts(pw_tup) ==
    [wt_win |-> SignedAdd(Signed(FALSE, pw_tup[1]), Signed(TRUE, pw_tup[2])),
     wt_lose |-> SignedAdd(Signed(FALSE, pw_tup[3]), Signed(TRUE, pw_tup[2])),
     tie |-> Signed(FALSE, pw_tup[2])]

\* the match value stored for a key whose deal is decided, every unseen card
\* giving the same outcome, so that (pr_win, pr_los) is (1.0, 0.0), (0.0, 0.0)
\* or (0.0, 1.0):  prob_win_con_tie + (wt_win * pr_win + wt_lose * pr_los)
DecidedValue(pw_tup, outcome) ==
    LET w == FloatGetWts(pw_tup)
        nil == Signed(FALSE, FloatZero)
    IN  SignedAdd(w.tie, SignedAdd(IF outcome > 0 THEN w.wt_win ELSE nil,
                                   IF outcome < 0 THEN w.wt_lose ELSE nil))

NoDeal == [seen |-> FALSE, outcome |-> 0, mine |-> Signed(FALSE, FloatZero),
           theirs |-> Signed(FALSE, FloatZero)]
MirrorIdle ==
    /\ m_pw_tup = <<>>
    /\ m_tup = <<>>
    /\ m_calls = 0
    /\ m_deal = NoDeal

MirrorInit ==
    /\ m_pw_tup \in MirrorTuples
    /\ m_tup = m_pw_tup
    /\ m_calls = 0
    /\ m_deal = NoDeal

\* the number of calls of _opponent_tup that are followed
MaxMirrors == 3

\* self._opponent_tup(...) on the tuple the last call returned
OpponentTupCall ==
    /\ m_pw_tup # <<>>
    /\ m_calls < MaxMirrors
    /\ m_tup' = FloatOpponentTup(m_tup)
    /\ m_calls' = m_calls + 1
    /\ UNCHANGED <<m_pw_tup, m_deal>>

\* a decided deal is valued in the player's table, built with pw_tup, and in
\* the opponent's, built with _opponent_tup(pw_tup), where its outcome is the
\* opposite one
DecidedDeal ==
    /\ m_pw_tup # <<>>
    /\ \E outcome \in TrickVals :
        m_deal' = [seen |-> TRUE, outcome |-> outcome,
                   mine |-> DecidedValue(m_pw_tup, outcome),
                   theirs |-> DecidedValue(FloatOpponentTup(m_pw_tup), -outcome)]
    /\ UNCHANGED <<m_pw_tup, m_tup, m_calls>>

\* ------------------------------------------------------------------ PutGame
\* the deck of the game: two cards of each face; the highest face stands for
\* PutCardOrder.Joker, the one card the game tests for
GameDeck == [v \in Faces |-> 2]
Joker == 3
NoCard == 0
NoOne == 2
LeadRules == {"alternating", "winner_leads", "loser_leads"}
OpponentOf(player) == (player + 1) % 2

\* Urn.sample(6) split into the two hands: any two hands of three cards the deck holds
Hands == {h \in [Faces -> 0..3] : TotalCount(h) = 3}
Deals(deck) == {d \in Hands \X Hands : \A v \in Faces : d[1][v] + d[2][v] <= deck[v]}

\* PutGame._new_deal: the leader of the deal it settles on, or the exception.
\* The assignment self.__turn = ... binds _PutGame__turn, an attribute nothing
\* reads: the turn of the game is left as it is.
NextLeader(leader, rule, deal_wins) ==
    IF leader = NoOne THEN [err |-> "none", leader |-> g_turn]
    ELSE IF rule = "alternating" THEN [err |-> "none", leader |-> OpponentOf(leader)]
    ELSE IF deal_wins = <<>> THEN [err |-> "IndexError", leader |-> leader]
    ELSE IF rule = "winner_leads" THEN [err |-> "none", leader |-> deal_wins[1]]
    ELSE [err |-> "none", leader |-> OpponentOf(deal_wins[1])]

\* the rest of _new_deal once the leader is set
Dealt ==
    \E d \in Deals(GameDeck) :
        /\ g_hands' = d
        /\ g_had_joker' = <<d[1][Joker] > 0, d[2][Joker] > 0>>
        /\ g_put' = "none"
        /\ g_trick' = 0
        /\ g_tricks_won' = <<0, 0>>
        /\ g_played' = NoCard

\* a _check_win that asks for one point more
CheckWinLate(tally) == IF tally[1] > 5 THEN 0 ELSE IF tally[2] > 5 THEN 1 ELSE NoOne
\* PutGame._check_win
CheckWin(tally) == IF tally[1] > 4 THEN 0 ELSE IF tally[2] > 4 THEN 1 ELSE NoOne

\* the end of a deal in play(): the tally is raised, _check_win, and _new_deal
\* when nobody has won the match
Settle(tally, deal_wins) ==
    LET nl == NextLeader(g_leader, g_rule, deal_wins) IN
    /\ g_tally' = tally
    /\ g_deal_wins' = deal_wins
    /\ g_winner' = CheckWin(tally)
    /\ IF CheckWin(tally) # NoOne
       THEN /\ g_err' = "none"
            /\ UNCHANGED <<g_leader>>
       ELSE /\ g_err' = nl.err
            /\ g_leader' = nl.leader

GameIdle ==
    /\ g_rule = "none"
    /\ g_turn = 0
    /\ g_winner = NoOne
    /\ g_tally = <<0, 0>>
    /\ g_deal_wins = <<>>
    /\ g_last = <<>>
    /\ g_leader = NoOne
    /\ g_put = "none"
    /\ g_hands = <<[v \in Faces |-> 0], [v \in Faces |-> 0]>>
    /\ g_had_joker = <<FALSE, FALSE>>
    /\ g_trick = 0
    /\ g_tricks_won = <<0, 0>>
    /\ g_played = NoCard
    /\ g_err = "none"

\* PutGame.__init__(deck, turn=0, lead_rule)
GameInit ==
    /\ g_rule \in LeadRules
    /\ g_turn = 0
    /\ g_winner = NoOne
    /\ g_tally = <<0, 0>>
    /\ g_deal_wins = <<>>
    /\ g_last = <<>>
    /\ g_leader = g_turn
    /\ g_put = "none"
    /\ g_hands \in Deals(GameDeck)
    /\ g_had_joker = <<g_hands[1][Joker] > 0, g_hands[2][Joker] > 0>>
    /\ g_trick = 0
    /\ g_tricks_won = <<0, 0>>
    /\ g_played = NoCard
    /\ g_err = "none"

\* PutGame.valid_moves: the words among them, and the cards
ValidWords ==
    IF g_winner # NoOne THEN {}
    ELSE IF g_put = "called" THEN {"fold", "see"}
    ELSE IF g_put = "none" /\ g_tally[g_turn + 1] < 4 THEN {"call_put"} ELSE {}
ValidCards ==
    IF g_winner # NoOne \/ g_put = "called" THEN {}
    ELSE {v \in Faces : g_hands[g_turn + 1][v] > 0}
\* play(move) of a valid move on a game that has raised nothing
CanPlay(move) == g_rule # "none" /\ g_err = "none" /\ move \in ValidWords
CanPlayCard(move) == g_rule # "none" /\ g_err = "none" /\ move \in ValidCards

\* play(move) of a move that is not among valid_moves: InvalidMoveException is
\* raised before anything is changed
Words == {"call_put", "see", "fold"}
PlayInvalid ==
    /\ g_rule # "none"
    /\ g_err = "none"
    /\ \/ \E move \in Words : move \notin ValidWords
       \/ \E move \in Faces : move \notin ValidCards
    /\ g_err' = "InvalidMoveException"
    /\ UNCHANGED <<g_rule, g_turn, g_winner, g_tally, g_deal_wins, g_last, g_leader, g_put,
                   g_hands, g_had_joker, g_trick, g_tricks_won, g_played>>

\* play('call_put')
PlayCallPut ==
    /\ CanPlay("call_put")
    /\ g_last' = <<g_turn, "call_put">>
    /\ g_put' = "called"
    /\ g_turn' = OpponentOf(g_turn)
    /\ UNCHANGED <<g_rule, g_winner, g_tally, g_deal_wins, g_leader, g_hands, g_had_joker,
                   g_trick, g_tricks_won, g_played, g_err>>

\* play('see')
PlaySee ==
    /\ CanPlay("see")
    /\ g_last' = <<g_turn, "see">>
    /\ g_put' = "accepted"
    /\ UNCHANGED <<g_rule, g_turn, g_winner, g_tally, g_deal_wins, g_leader, g_hands,
                   g_had_joker, g_trick, g_tricks_won, g_played, g_err>>

\* play('fold'): the opponent wins a point
PlayFold ==
    /\ CanPlay("fold")
    /\ g_last' = <<g_turn, "fold">>
    /\ Settle([g_tally EXCEPT ![OpponentOf(g_turn) + 1] = @ + 1], g_deal_wins)
    /\ IF g_winner' = NoOne /\ g_err' = "none"
       THEN Dealt
       ELSE UNCHANGED <<g_put, g_hands, g_had_joker, g_trick, g_tricks_won, g_played>>
    /\ UNCHANGED <<g_rule, g_turn>>

\* the winner of a finished deal as play() works it out: NoOne when neither
\* branch of the if / elif assigns deal_winner
DealWinner(tricks_won, had_joker) ==
    IF (tricks_won[1] >= 2 /\ ~had_joker[1]) \/ (tricks_won[1] = 2 /\ had_joker[1]) THEN 0
    ELSE IF (tricks_won[2] >= 2 /\ ~had_joker[2]) \/ (tricks_won[2] = 2 /\ had_joker[2]) THEN 1
    ELSE NoOne

\* play(card)
PlayCard ==
    \E move \in Faces :
        /\ CanPlayCard(move)
        /\ LET cur_player == g_turn
               oth_player == OpponentOf(g_turn)
               hands == [g_hands EXCEPT ![cur_player + 1][move] = @ - 1]
           IN
           /\ g_last' = <<g_turn, move>>
           /\ IF g_played = NoCard
              THEN /\ g_played' = move
                   /\ g_turn' = oth_player
                   /\ g_hands' = hands
                   /\ UNCHANGED <<g_winner, g_tally, g_deal_wins, g_leader, g_put, g_had_joker,
                                  g_trick, g_tricks_won, g_err>>
              ELSE LET tricks_won ==
                           IF move > g_played THEN [g_tricks_won EXCEPT ![cur_player + 1] = @ + 1]
                           ELSE IF move < g_played
                                THEN [g_tricks_won EXCEPT ![oth_player + 1] = @ + 1]
                           ELSE g_tricks_won
                       deal_winner == DealWinner(tricks_won, g_had_joker)
                   IN
                   /\ g_turn' = IF move > g_played THEN cur_player ELSE oth_player
                   /\ IF g_trick + 1 <= 2
                      THEN /\ g_trick' = g_trick + 1
                           /\ g_tricks_won' = tricks_won
                           /\ g_played' = NoCard
                           /\ g_hands' = hands
                           /\ UNCHANGED <<g_winner, g_tally, g_deal_wins, g_leader, g_put,
                                          g_had_joker, g_err>>
                      ELSE IF deal_winner = NoOne
                      THEN \* self.__deal_wins.append(deal_winner) reads an unbound local
                           /\ g_err' = "UnboundLocalError"
                           /\ g_trick' = g_trick + 1
                           /\ g_tricks_won' = tricks_won
                           /\ g_played' = NoCard
                           /\ g_hands' = hands
                           /\ UNCHANGED <<g_winner, g_tally, g_deal_wins, g_leader, g_put,
                                          g_had_joker>>
                      ELSE /\ Settle([g_tally EXCEPT ![deal_winner + 1] = @ + 1], <<deal_winner>>)
                           /\ IF g_winner' = NoOne /\ g_err' = "none"
                              THEN Dealt
                              ELSE /\ g_trick' = g_trick + 1
                                   /\ g_tricks_won' = tricks_won
                                   /\ g_played' = NoCard
                                   /\ g_hands' = hands
                                   /\ UNCHANGED <<g_put, g_had_joker>>
    /\ UNCHANGED g_rule

\* ------------------------------------------------------------------ specifications
vars ==
    <<urnVars, rulesVars, solverVars, rootVars, relabelVars, gameVars, valueVars, mirrorVars>>

InitUrn == UrnInit /\ RulesIdle /\ SolverIdle /\ RootIdle /\ RelabelIdle /\ GameIdle /\ ValueIdle /\ MirrorIdle
NextUrn ==
    \/ UrnCall /\ UNCHANGED <<rulesVars, solverVars, rootVars, relabelVars, gameVars, valueVars, mirrorVars>>
    \/ UrnStart /\ UNCHANGED <<rulesVars, solverVars, rootVars, relabelVars, gameVars, valueVars, mirrorVars>>
    \/ UrnStep /\ UNCHANGED <<rulesVars, solverVars, rootVars, relabelVars, gameVars, valueVars, mirrorVars>>
    \/ UrnFinish /\ UNCHANGED <<rulesVars, solverVars, rootVars, relabelVars, gameVars, valueVars, mirrorVars>>
    \/ UrnRedraw /\ UNCHANGED <<rulesVars, solverVars, rootVars, relabelVars, gameVars, valueVars, mirrorVars>>
SpecUrn == InitUrn /\ [][NextUrn]_vars

InitRules == RulesIdle /\ UrnIdle /\ SolverIdle /\ RootIdle /\ RelabelIdle /\ GameIdle /\ ValueIdle /\ MirrorIdle
NextRules ==
    \/ CallScoreMatch /\ UNCHANGED <<urnVars, solverVars, rootVars, relabelVars, gameVars, valueVars, mirrorVars>>
    \/ CallScoreFrom /\ UNCHANGED <<urnVars, solverVars, rootVars, relabelVars, gameVars, valueVars, mirrorVars>>
    \/ RulesReturn /\ UNCHANGED <<urnVars, solverVars, rootVars, relabelVars, gameVars, valueVars, mirrorVars>>
SpecRules == InitRules /\ [][NextRules]_vars

InitSolver == SolverInit /\ UrnIdle /\ RulesIdle /\ RootIdle /\ RelabelIdle /\ GameIdle /\ ValueIdle /\ MirrorIdle
NextSolver ==
    \/ SolverCall /\ UNCHANGED <<urnVars, rulesVars, rootVars, relabelVars, gameVars, valueVars, mirrorVars>>
    \/ SolverEnter /\ UNCHANGED <<urnVars, rulesVars, rootVars, relabelVars, gameVars, valueVars, mirrorVars>>
    \/ SolverBindFail /\ UNCHANGED <<urnVars, rulesVars, rootVars, relabelVars, gameVars, valueVars, mirrorVars>>
    \/ SolverRun /\ UNCHANGED <<urnVars, rulesVars, rootVars, relabelVars, gameVars, valueVars, mirrorVars>>
SpecSolver == InitSolver /\ [][NextSolver]_vars

InitPolish == PolishInit /\ UrnIdle /\ RulesIdle /\ RootIdle /\ RelabelIdle /\ GameIdle /\ ValueIdle /\ MirrorIdle
NextPolish ==
    \/ IterateCall /\ UNCHANGED <<urnVars, rulesVars, rootVars, relabelVars, gameVars, valueVars, mirrorVars>>
    \/ SolverEnter /\ UNCHANGED <<urnVars, rulesVars, rootVars, relabelVars, gameVars, valueVars, mirrorVars>>
    \/ SolverRun /\ UNCHANGED <<urnVars, rulesVars, rootVars, relabelVars, gameVars, valueVars, mirrorVars>>
SpecPolish == InitPolish /\ [][NextPolish]_vars

InitRaised == RaisedInit /\ UrnIdle /\ RulesIdle /\ RootIdle /\ RelabelIdle /\ GameIdle /\ ValueIdle /\ MirrorIdle
NextRaised ==
    \/ SolverCall /\ UNCHANGED <<urnVars, rulesVars, rootVars, relabelVars, gameVars, valueVars, mirrorVars>>
    \/ SolverEnter /\ UNCHANGED <<urnVars, rulesVars, rootVars, relabelVars, gameVars, valueVars, mirrorVars>>
    \/ SolverBindFail /\ UNCHANGED <<urnVars, rulesVars, rootVars, relabelVars, gameVars, valueVars, mirrorVars>>
    \/ SolverRun /\ UNCHANGED <<urnVars, rulesVars, rootVars, relabelVars, gameVars, valueVars, mirrorVars>>
    \/ SolverRecall /\ UNCHANGED <<urnVars, rulesVars, rootVars, relabelVars, gameVars, valueVars, mirrorVars>>
SpecRaised == InitRaised /\ [][NextRaised]_vars

InitRelabel == RelabelInit /\ UrnIdle /\ RulesIdle /\ RootIdle /\ GameIdle /\ ValueIdle /\ MirrorIdle
NextRelabel ==
    \/ SolverCall /\ UNCHANGED <<urnVars, rulesVars, rootVars, relabelVars, gameVars, valueVars, mirrorVars>>
    \/ SolverEnter /\ UNCHANGED <<urnVars, rulesVars, rootVars, relabelVars, gameVars, valueVars, mirrorVars>>
    \/ SolverBindFail /\ UNCHANGED <<urnVars, rulesVars, rootVars, relabelVars, gameVars, valueVars, mirrorVars>>
    \/ SolverRun /\ UNCHANGED <<urnVars, rulesVars, rootVars, relabelVars, gameVars, valueVars, mirrorVars>>
    \/ SolverRelabel /\ UNCHANGED <<urnVars, rulesVars, rootVars, gameVars, valueVars, mirrorVars>>
SpecRelabel == InitRelabel /\ [][NextRelabel]_vars

InitSingle == SingleInit /\ UrnIdle /\ RulesIdle /\ RootIdle /\ RelabelIdle /\ GameIdle /\ ValueIdle /\ MirrorIdle
NextSingle ==
    \/ SolverCall /\ UNCHANGED <<urnVars, rulesVars, rootVars, relabelVars, gameVars, valueVars, mirrorVars>>
    \/ SolverEnter /\ UNCHANGED <<urnVars, rulesVars, rootVars, relabelVars, gameVars, valueVars, mirrorVars>>
    \/ SolverBindFail /\ UNCHANGED <<urnVars, rulesVars, rootVars, relabelVars, gameVars, valueVars, mirrorVars>>
    \/ SolverRun /\ UNCHANGED <<urnVars, rulesVars, rootVars, relabelVars, gameVars, valueVars, mirrorVars>>
SpecSingle == InitSingle /\ [][NextSingle]_vars

InitGame == GameInit /\ UrnIdle /\ RulesIdle /\ SolverIdle /\ RootIdle /\ RelabelIdle /\ ValueIdle /\ MirrorIdle
NextGame ==
    \/ PlayCallPut /\ UNCHANGED <<urnVars, rulesVars, solverVars, rootVars, relabelVars, valueVars, mirrorVars>>
    \/ PlaySee /\ UNCHANGED <<urnVars, rulesVars, solverVars, rootVars, relabelVars, valueVars, mirrorVars>>
    \/ PlayFold /\ UNCHANGED <<urnVars, rulesVars, solverVars, rootVars, relabelVars, valueVars, mirrorVars>>
    \/ PlayCard /\ UNCHANGED <<urnVars, rulesVars, solverVars, rootVars, relabelVars, valueVars, mirrorVars>>
    \/ PlayInvalid /\ UNCHANGED <<urnVars, rulesVars, solverVars, rootVars, relabelVars, valueVars, mirrorVars>>
SpecGame == InitGame /\ [][NextGame]_vars

InitValue ==
    ValueInit /\ UrnIdle /\ RulesIdle /\ SolverIdle /\ RootIdle /\ RelabelIdle /\ GameIdle
    /\ MirrorIdle
NextValue ==
    \/ ValuePass /\ UNCHANGED <<urnVars, rulesVars, solverVars, rootVars, relabelVars, gameVars, mirrorVars>>
    \/ ValueReturn /\ UNCHANGED <<urnVars, rulesVars, solverVars, rootVars, relabelVars, gameVars, mirrorVars>>
SpecValue == InitValue /\ [][NextValue]_vars

InitMirror ==
    MirrorInit /\ UrnIdle /\ RulesIdle /\ SolverIdle /\ RootIdle /\ RelabelIdle /\ GameIdle
    /\ ValueIdle
NextMirror ==
    \/ OpponentTupCall
        /\ UNCHANGED <<urnVars, rulesVars, solverVars, rootVars, relabelVars, gameVars, valueVars>>
    \/ DecidedDeal
        /\ UNCHANGED <<urnVars, rulesVars, solverVars, rootVars, relabelVars, gameVars, valueVars>>
SpecMirror == InitMirror /\ [][NextMirror]_vars

InitRoot == RootIdle /\ UrnIdle /\ RulesIdle /\ SolverIdle /\ RelabelIdle /\ GameIdle /\ ValueIdle /\ MirrorIdle
NextRoot ==
    \/ IllinoisCall /\ UNCHANGED <<urnVars, rulesVars, solverVars, relabelVars, gameVars, valueVars, mirrorVars>>
    \/ RootPolishCall /\ UNCHANGED <<urnVars, rulesVars, solverVars, relabelVars, gameVars, valueVars, mirrorVars>>
    \/ IllinoisStep /\ UNCHANGED <<urnVars, rulesVars, solverVars, relabelVars, gameVars, valueVars, mirrorVars>>
SpecRoot == InitRoot /\ [][NextRoot]_vars

\* ------------------------------------------------------------------ claims: Urn
RECURSIVE SeqSum(_)
SeqSum(s) == IF s = <<>> THEN 0 ELSE Head(s) + SeqSum(Tail(s))

\* number of occurrences of v in the tuple t
Occ(v, t) == Cardinality({i \in DOMAIN t : t[i] = v})

\* n * (n-1) * ... * (n-k+1)
RECURSIVE Falling(_, _)
Falling(n, k) == IF k = 0 THEN 1 ELSE Falling(n, k - 1) * (n - k + 1)

RECURSIVE FacesProduct(_, _, _)
FacesProduct(u, t, S) ==
    IF S = {} THEN 1
    ELSE LET v == CHOOSE x \in S : TRUE IN
         Falling(u[v], Occ(v, t)) * FacesProduct(u, t, S \ {v})

\* the ordered k-tuples that can be drawn from u without replacement
Drawable(u, k) == {t \in [1..k -> Faces] : \A v \in Faces : Occ(v, t) <= u[v]}

OutWeights == [i \in DOMAIN u_out |-> u_out[i].wt]

\* a float within 2^-(2 * LimbBits) of 1
NearOne(x) ==
    \/ x[1] = 1 /\ x[2] = 0 /\ x[3] = 0
    \/ x[1] = 0 /\ x[2] = Base - 1 /\ x[3] = Base - 1

\* C1 as stated: when perm_k(k), 0 <= k <= total, has been enumerated to the end,
\* the probabilities attached to the yielded tuples sum to exactly 1.
C1_SumExactlyOne ==
    u_pc = "done" => u_psum = FloatOne

\* C1 amended: when perm_k(k) has been enumerated to the end, the integer weights
\* of the yielded tuples sum to total*(total-1)*...*(total-k+1), which is the
\* denominator each weight is divided by, and the float probabilities sum to 1
\* within floating tolerance.
C1_WeightsSumToOne ==
    u_pc = "done" =>
        /\ SeqSum(OutWeights) = Falling(TotalCount(u_orig), u_k)
        /\ \A i \in DOMAIN u_out :
            /\ u_out[i].deno = Falling(TotalCount(u_orig), u_k)
            /\ u_out[i].deno > 0
        /\ NearOne(u_psum)

C1_Witness ==
    /\ u_pc = "done"
    /\ u_k >= 2
    /\ Len(u_out) >= 3
    /\ \E v \in Faces : u_orig[v] >= 2
    /\ u_psum # FloatOne
    /\ NearOne(u_psum)

\* C2: perm_k(k) yields exactly the drawable ordered k-tuples, each once, each with
\* weight the product of the successive remaining counts over the falling
\* factorial of the total; a tuple that overdraws a face value is never yielded.
C2_CompleteExactEnumeration ==
    /\ \A i \in DOMAIN u_out :
        /\ u_out[i].tup \in Drawable(u_orig, u_k)
        /\ u_out[i].wt = FacesProduct(u_orig, u_out[i].tup, Faces)
        /\ u_out[i].deno = Falling(TotalCount(u_orig), u_k)
        /\ u_out[i].pr = TrueDiv(FacesProduct(u_orig, u_out[i].tup, Faces),
                                 Falling(TotalCount(u_orig), u_k))
        /\ \A j \in DOMAIN u_out : u_out[j].tup = u_out[i].tup => j = i
    /\ u_pc = "done" => {u_out[i].tup : i \in DOMAIN u_out} = Drawable(u_orig, u_k)

C2_Witness ==
    /\ u_pc = "done"
    /\ u_nested
    /\ u_k = 2
    /\ \E v \in Faces : u_orig[v] = 0
    /\ Len(u_out) >= 2
    /\ Len(u_out) < ProductSize(u_k)

\* C3: enumerating perm_k never changes the counts of the urn it runs on, and the
\* residual urn yielded with a tuple holds, for every face value, the source count
\* minus the occurrences of that value in the tuple, never a negative count.
C3_DrawDoesNotMutate ==
    /\ u_pc \in {"iter", "done"} => u_self = u_orig
    /\ \A i \in DOMAIN u_out : \A v \in Faces :
        /\ u_out[i].res[v] = u_orig[v] - Occ(v, u_out[i].tup)
        /\ u_out[i].res[v] >= 0

C3_Witness ==
    /\ u_pc = "iter"
    /\ u_idx < ProductSize(u_k)
    /\ Len(u_out) >= 2
    /\ u_out[1].res # u_orig

\* C4: perm_k(k) with k above the total count fails its assertion when first
\* advanced: it never iterates, never ends normally and yields no tuple.
C4_UnderflowFails ==
    u_k > TotalCount(u_orig) =>
        /\ u_pc \in {"created", "AssertionError"}
        /\ u_out = <<>>

C4_Witness ==
    /\ u_pc = "AssertionError"
    /\ u_k > TotalCount(u_self)
    /\ u_out = <<>>

\* ------------------------------------------------------------------ claims: rules
Wins1 == Cardinality({i \in 1..3 : r_tricks[i] > 0})
Wins2 == Cardinality({i \in 1..3 : r_tricks[i] < 0})

\* C5: score_match is antisymmetric under perspective swap: negating the three
\* trick results and exchanging the joker flags negates the result.
C5_Antisymmetric ==
    r_call # "none" =>
        ScoreMatch(-r_tricks[1], -r_tricks[2], -r_tricks[3], r_jok[2], r_jok[1]) = -r_ret

C5_Witness ==
    /\ r_call = "score_match"
    /\ r_jok = <<TRUE, FALSE>>
    /\ r_tricks = <<1, 1, 1>>
    /\ r_ret = -1

\* C6 as stated: for a side whose joker flag is set, whatever the other flag, a
\* sweep of the three tricks is a loss for it and exactly two wins are a win.
C6_Original ==
    r_call # "none" =>
        /\ r_jok[1] => /\ Wins1 = 3 => r_ret = -1
                       /\ Wins1 = 2 => r_ret = 1
        /\ r_jok[2] => /\ Wins2 = 3 => r_ret = 1
                       /\ Wins2 = 2 => r_ret = -1

\* C6 amended: for a side whose joker flag is set, exactly two wins are a win for
\* it whatever the other flag; a sweep of the three tricks is a loss for it when
\* the other flag is not set, and a tie when both flags are set.
C6_JokerSweepRule ==
    r_call # "none" =>
        /\ r_jok[1] => /\ Wins1 = 3 /\ ~r_jok[2] => r_ret = -1
                       /\ Wins1 = 3 /\ r_jok[2] => r_ret = 0
                       /\ Wins1 = 2 => r_ret = 1
        /\ r_jok[2] => /\ Wins2 = 3 /\ ~r_jok[1] => r_ret = 1
                       /\ Wins2 = 3 /\ r_jok[1] => r_ret = 0
                       /\ Wins2 = 2 => r_ret = -1

C6_Witness ==
    /\ r_call = "score_from"
    /\ r_jok = <<TRUE, TRUE>>
    /\ Wins1 = 3
    /\ r_ret = 0

\* the medians of three values: at least two of them are <= m, at least two >= m
IsMedian(m, t) ==
    /\ \E i \in 1..3 : t[i] = m
    /\ Cardinality({i \in 1..3 : t[i] <= m}) >= 2
    /\ Cardinality({i \in 1..3 : t[i] >= m}) >= 2

\* C7: with both joker flags false score_match is the sign of the median of the
\* three trick results, in whatever order they are given.
C7_NoJokerMedian ==
    (r_call # "none" /\ ~r_jok[1] /\ ~r_jok[2]) =>
        /\ IsMedian(r_ret, r_tricks)
        /\ \A p \in Permutations(1..3) :
            ScoreMatch(r_tricks[p[1]], r_tricks[p[2]], r_tricks[p[3]], FALSE, FALSE) = r_ret

C7_Witness ==
    /\ r_call = "score_match"
    /\ r_jok = <<FALSE, FALSE>>
    /\ r_tricks = <<1, -1, 0>>
    /\ r_ret = 0

\* ------------------------------------------------------------------ claims: solver
CallEnded == s_goal # "none" /\ s_stack = <<>>

\* the value table a decision table is filled from
ValueMethod(m) ==
    CASE m = "secfd" -> "secf" [] m = "secld" -> "secl"
      [] m = "firfd" -> "firf" [] m = "firld" -> "firl"
HandSize(m) == IF m \in {"secfd", "secld"} THEN 2 ELSE 3
DecisionMethods == {"secfd", "secld", "firfd", "firld"}

\* the cards of hand other than the one at position i, highest first
Retained(hand, i) ==
    LET rest == SelectSeq([j \in 1..Len(hand) |-> IF j = i THEN 0 ELSE hand[j]],
                          LAMBDA c : c # 0)
    IN  IF Len(rest) = 2 /\ rest[1] < rest[2] THEN <<rest[2], rest[1]>> ELSE rest

\* the key of the value table for playing the i-th card of the hand of key
ValueKey(m, key, i) ==
    LET n == HandSize(m)
        hand == SubSeq(key, 1, n)
        seen == SubSeq(key, n + 1, Len(key))
    IN  CASE m = "secfd" -> Retained(hand, i) \o <<seen[1], hand[i], seen[2], seen[3]>>
          [] m = "secld" -> Retained(hand, i) \o <<seen[1], hand[i], seen[2]>>
          [] m = "firfd" -> Retained(hand, i) \o <<hand[i], seen[1]>>
          [] m = "firld" -> Retained(hand, i) \o <<hand[i]>>

\* a / (PScale * adn) compared with b / (PScale * bdn)
FracLeq(a, adn, b, bdn) == a * bdn <= b * adn
FracEq(a, adn, b, bdn) == a * bdn = b * adn

BestMove(m, t, key) ==
    LET D == s_memo[<<m, t>>]
        V == s_memo[<<ValueMethod(m), t>>]
        e == D[key]
        hand == 1..HandSize(m)
    IN  \E i \in hand :
            /\ e.move = key[i]
            /\ ValueKey(m, key, i) \in DOMAIN V
            /\ LET v == V[ValueKey(m, key, i)] IN
                /\ e.mw = v.mw /\ e.dw = v.dw /\ e.dl = v.dl /\ e.dn = v.dn
                /\ \A j \in hand :
                    LET o == V[ValueKey(m, key, j)] IN
                    /\ FracLeq(o.mw, o.dn, v.mw, v.dn)
                    /\ FracEq(o.mw, o.dn, v.mw, v.dn) => e.move <= key[j]

\* C8: in each of the four decision tables the entry of a key holds a card of the
\* player's unplayed cards whose value-table objective is the greatest among those
\* cards and, among the cards that attain it, the lowest card; the probabilities
\* stored with the move are those of the value table for that move.
C8_DecisionIsBestLowestCard ==
    CallEnded =>
        \A mt \in DOMAIN s_memo :
            mt[1] \in DecisionMethods =>
                \A key \in DOMAIN s_memo[mt] : BestMove(mt[1], mt[2], key)

\* a decision made between cards of different rank that tie in objective, in a
\* first-trick table and in a second-trick table
C8_Witness ==
    /\ CallEnded
    /\ s_err = "none"
    /\ <<"firld", s_tup>> \in DOMAIN s_memo
    /\ \E key \in DOMAIN s_memo[<<"firld", s_tup>>] :
        LET V == s_memo[<<"firl", s_tup>>]
            a == V[ValueKey("firld", key, 1)]
            b == V[ValueKey("firld", key, 3)]
            c == V[ValueKey("firld", key, 2)]
        IN  /\ key[1] > key[3]
            /\ FracEq(a.mw, a.dn, b.mw, b.dn)
            /\ ~FracLeq(a.mw, a.dn, c.mw, c.dn)
            /\ s_memo[<<"firld", s_tup>>][key].move = key[3]
    /\ \E key \in DOMAIN s_memo[<<"secfd", s_tup>>] :
        LET V == s_memo[<<"secf", s_tup>>]
            a == V[ValueKey("secfd", key, 1)]
            b == V[ValueKey("secfd", key, 2)]
        IN  /\ key[1] > key[2]
            /\ ~FracLeq(a.mw, a.dn, b.mw, b.dn)
            /\ s_memo[<<"secfd", s_tup>>][key].move = key[1]

\* the canonical keys of the decision tables: the player's unplayed cards highest
\* first, then the visible cards, all of them drawable together from the deck; in
\* the second-trick leader table the leader's first card is not below the other's
CanonicalKeys(m, deck) ==
    CASE m = "secfd" -> {k \in Drawable(deck, 5) : k[1] >= k[2]}
      [] m = "secld" -> {k \in Drawable(deck, 4) : k[1] >= k[2] /\ k[3] >= k[4]}
      [] m = "firfd" -> {k \in Drawable(deck, 4) : k[1] >= k[2] /\ k[2] >= k[3]}
      [] m = "firld" -> {k \in Drawable(deck, 3) : k[1] >= k[2] /\ k[2] >= k[3]}

\* the decision tables first_trick_leader_decision(pw_tup) rests on
TablesOfLeaderCall(t) ==
    {<<"secfd", t>>, <<"secfd", OpponentTup(t)>>, <<"secld", t>>,
     <<"secld", OpponentTup(t)>>, <<"firfd", OpponentTup(t)>>, <<"firld", t>>}

\* C9: for a deck of at least 6 cards and any continuation tuple, building the
\* tables raises nothing (no failed lookup), and every decision table holds an
\* entry for every canonical key, and for no other key.
C9_TablesComplete ==
    (s_goal = "firld" /\ TotalCount(s_deck) >= 6) =>
        /\ s_err = "none"
        /\ \A mt \in DOMAIN s_memo :
            mt[1] \in DecisionMethods => DOMAIN s_memo[mt] = CanonicalKeys(mt[1], s_deck)
        /\ s_stack = <<>> => TablesOfLeaderCall(s_tup) \subseteq DOMAIN s_memo

C9_Witness ==
    /\ s_goal = "firld"
    /\ s_stack = <<>>
    /\ s_err = "none"
    /\ TotalCount(s_deck) = 7
    /\ \E v \in Faces : s_deck[v] = 1
    /\ s_tup # OpponentTup(s_tup)
    /\ TablesOfLeaderCall(s_tup) \subseteq DOMAIN s_memo

\* C10 as stated: first_trick_call_put_decision(pw_tup) returns, for every opening
\* hand of first_trick_leader_decision, "call_put" iff the objective under the
\* accelerated tuple is strictly greater than under pw_tup, "knock" otherwise,
\* with the larger objective; every hand is "knock" when p_win = 1.
C10_CallPutDecision ==
    (s_goal = "ftcpd" /\ s_stack = <<>>) =>
        /\ s_err = "none"
        /\ {<<"ftcpd", s_tup>>, <<"firld", s_tup>>} \subseteq DOMAIN s_memo
        /\ LET ftpd == s_memo[<<"ftcpd", s_tup>>]
               firld == s_memo[<<"firld", s_tup>>]
           IN  /\ DOMAIN ftpd = DOMAIN firld
               /\ \A key \in DOMAIN firld :
                    IF CanCallPut(s_tup)
                    THEN LET put == s_memo[<<"firld", PutTup(s_tup)>>][key]
                             yes == ~FracLeq(put.mw, put.dn, firld[key].mw, firld[key].dn)
                         IN  /\ ftpd[key].decision = IF yes THEN "call_put" ELSE "knock"
                             /\ FracEq(ftpd[key].mw, ftpd[key].dn,
                                       IF yes THEN put.mw ELSE firld[key].mw,
                                       IF yes THEN put.dn ELSE firld[key].dn)
                    ELSE /\ ftpd[key].decision = "knock"
                         /\ FracEq(ftpd[key].mw, ftpd[key].dn, firld[key].mw, firld[key].dn)

\* ------------------------------------------------------------------ claims: fixed point
\* C11 as stated: iterate_tie_pwin started from (1, p_tie, 0) returns a tuple
\* (1, p*, 0) whose middle entry is reproduced by prob_win((1, p*, 0)).  Here: the
\* call ends without an exception, with a tuple that keeps the outer entries.
C11_FixedPointReturned ==
    (s_goal = "itp" /\ s_stack = <<>>) =>
        /\ s_err = "none"
        /\ <<"itp", s_tup>> \in DOMAIN s_memo
        /\ LET r == s_memo[<<"itp", s_tup>>] IN
            /\ r[1] = Rat(s_tup[1], PScale)
            /\ r[3] = Rat(s_tup[3], PScale)

\* ------------------------------------------------------------------ claims: solver relations
\* C15 as stated: for a fixed deck and fixed p_tie and p_lose, raising p_win alone
\* never decreases the optimal objective stored at any key of any decision table.
C15_MonotoneInPWin ==
    \A lo, hi \in DOMAIN s_memo :
        (/\ lo[1] \in DecisionMethods
         /\ hi[1] = lo[1]
         /\ hi[2][2] = lo[2][2]
         /\ hi[2][3] = lo[2][3]
         /\ hi[2][1] > lo[2][1]) =>
            \A key \in DOMAIN s_memo[lo] \cap DOMAIN s_memo[hi] :
                FracLeq(s_memo[lo][key].mw, s_memo[lo][key].dn,
                        s_memo[hi][key].mw, s_memo[hi][key].dn)

\* the key of a table with every card relabeled
RelabelKey(key, r) == [i \in DOMAIN key |-> r[key[i]]]

\* C16: the decision tables of the relabeled deck are the tables of the deck with
\* the relabeling applied to every card of their keys and to the chosen move; the
\* stored probabilities are equal.
C16_RelabelingInvariant ==
    (x_memo # <<>> /\ s_stack = <<>>) =>
        /\ s_err = "none"
        /\ \A mt \in DOMAIN x_memo :
            mt[1] \in DecisionMethods =>
                /\ mt \in DOMAIN s_memo
                /\ DOMAIN s_memo[mt] = {RelabelKey(key, x_map) : key \in DOMAIN x_memo[mt]}
                /\ \A key \in DOMAIN x_memo[mt] :
                    s_memo[mt][RelabelKey(key, x_map)]
                        = [x_memo[mt][key] EXCEPT !.move = x_map[@]]
C16_Witness ==
    /\ x_memo # <<>>
    /\ s_stack = <<>>
    /\ s_err = "none"
    /\ s_jokers # {}
    /\ <<"firld", s_tup>> \in DOMAIN s_memo
    /\ \E key \in DOMAIN s_memo[<<"firld", s_tup>>] : key[1] # key[3]
    /\ \E v \in DOMAIN x_map : x_map[v] # v /\ v \notin s_jokers

\* C17: on a deck of a single face with at least 6 copies every decision table
\* holds a single move, that face, and the deal-win and deal-loss probabilities
\* stored with it are each 0 or 1.
C17_SingleFaceDeck ==
    (s_goal = "firld" /\ s_stack = <<>> /\ Cardinality(Support(s_deck)) = 1) =>
        /\ s_err = "none"
        /\ TablesOfLeaderCall(s_tup) \subseteq DOMAIN s_memo
        /\ \A mt \in DOMAIN s_memo :
            mt[1] \in DecisionMethods =>
                /\ Cardinality(DOMAIN s_memo[mt]) = 1
                /\ \A key \in DOMAIN s_memo[mt] :
                    LET e == s_memo[mt][key] IN
                    /\ {e.move} = Support(s_deck)
                    /\ e.dn > 0
                    /\ e.dw \in {0, e.dn}
                    /\ e.dl \in {0, e.dn}
C17_Witness ==
    /\ s_goal = "firld"
    /\ s_stack = <<>>
    /\ s_err = "none"
    /\ TotalCount(s_deck) = 6
    /\ Cardinality(Support(s_deck)) = 1
    /\ s_jokers # {}
    /\ <<"secfd", OpponentTup(s_tup)>> \in DOMAIN s_memo
    /\ s_tup # OpponentTup(s_tup)

\* ------------------------------------------------------------------ claims: PutGame
\* C18 as stated: whenever winner is not None, the winner is the player of the
\* last history entry.
C18_WinnerPlayedLast ==
    (g_rule # "none" /\ g_winner # NoOne) => (g_last # <<>> /\ g_last[1] = g_winner)

\* C19 as stated: when the third trick of a deal completes, play() resolves the
\* deal as a win for player 0, a win for player 1 or a tie, and goes on (tally
\* and new deal, or match end) without error.
C19_DealResolved ==
    [][(g_rule # "none" /\ g_trick = 2 /\ g_played # NoCard /\ g_put # "called"
            /\ g_put' # "called" /\ g_err = "none" /\ g_hands' # g_hands) =>
          /\ g_err' = "none"
          /\ \/ g_winner' # NoOne
             \/ g_trick' = 0 /\ g_played' = NoCard]_vars

\* C20 as stated: once put has been called and answered with 'see', the player
\* who wins that deal wins the match.
C20_PutDealDecidesMatch ==
    [][(g_rule # "none" /\ g_put = "accepted" /\ g_tally' # g_tally) =>
          /\ g_winner' # NoOne
          /\ g_tally'[g_winner' + 1] = g_tally[g_winner' + 1] + 1]_vars

\* a step of play() that ends a deal and starts the next one: a point is scored,
\* nobody has won the match and nothing is raised
DealTurnover == g_rule # "none" /\ g_tally' # g_tally /\ g_winner' = NoOne /\ g_err' = "none"
\* the player who scored the point of the deal that ends
Scorer == IF g_tally'[1] > g_tally[1] THEN 0 ELSE 1
\* the first-trick leader lead_rule names for the next deal
RuleLeader ==
    IF g_rule = "alternating" THEN OpponentOf(g_leader)
    ELSE IF g_rule = "winner_leads" THEN Scorer
    ELSE OpponentOf(Scorer)

\* C21 as stated: at the start of every deal after the first, the player to move
\* is the first-trick leader chosen by lead_rule, whether the previous deal ended
\* by three tricks or by a fold.
C21_TurnIsRuleLeader ==
    [][DealTurnover => g_turn' = RuleLeader]_vars

\* C22: winner is None exactly while both tallies are at most 4 and is the
\* player whose tally has reached 5; no tally exceeds 5; once winner is set,
\* valid_moves is empty and every play() raises InvalidMoveException and leaves
\* tally, hands and history as they were.
C22_WinnerAtFive ==
    /\ [](g_rule # "none" =>
            /\ \A p \in {0, 1} : g_tally[p + 1] <= 5
            /\ (g_winner = NoOne) <=> (g_tally[1] <= 4 /\ g_tally[2] <= 4)
            /\ g_winner # NoOne =>
                  /\ g_tally[g_winner + 1] = 5
                  /\ g_tally[OpponentOf(g_winner) + 1] <= 4
                  /\ ValidWords = {}
                  /\ ValidCards = {})
    /\ [][(g_rule # "none" /\ g_winner # NoOne) =>
            /\ g_err' = "InvalidMoveException"
            /\ UNCHANGED <<g_winner, g_tally, g_hands, g_last>>]_vars
C22_Witness ==
    /\ g_winner # NoOne
    /\ g_err = "InvalidMoveException"
    /\ g_tally[g_winner + 1] = 5

\* ------------------------------------------------------------------ claims: root finder
\* C12 as stated: root_polish(f, x0) called without y0, f mapping [0,1] into
\* [0,1] and x0 in [0,1], evaluates f(x0) once and completes without error,
\* returning x0 or the result of illinois_method on f(x) + x - 1.
C12_PolishCompletes ==
    (rf_entry = "root_polish" /\ ~rf_y0 /\ rf_pc = "done") =>
        /\ rf_err = "none"
        /\ Len(rf_ret) = 1
        /\ rf_evals # <<>>

\* illinois_method returned because iter passed max_iter, with neither
\* |a - b| < xtol nor |fb| < ytol
BudgetStop ==
    /\ rf_entry = "illinois_method"
    /\ rf_pc = "done"
    /\ rf_err = "none"
    /\ rf_iter > rf_max
    /\ ~NumLess(NumAbs(NumSub(rf_a, rf_b)), XTol)
    /\ ~NumLess(NumAbs(rf_fb), YTol)

\* C13 as stated: when illinois_method stops because max_iter is exhausted, it
\* returns the current estimate together with an explicit indication of
\* non-convergence.
C13_NonConvergenceFlagged ==
    BudgetStop => Len(rf_ret) >= 2 /\ rf_ret[1] = rf_b

\* C14 as stated: illinois_method called with endpoints whose residuals have the
\* same strict sign fails with an assertion error before any secant iteration: no
\* evaluation of f at an interior point, no value returned.
C14_SameSignAsserted ==
    [][(rf_pc = "idle" /\ rf_entry' = "illinois_method" /\ rf_fa'.n * rf_fb'.n > 0) =>
          /\ rf_pc' = "done"
          /\ rf_err' = "AssertionError"
          /\ rf_ret' = <<>>
          /\ \A i \in DOMAIN rf_evals' : rf_evals'[i] \in {rf_a', rf_b'}]_vars

\* a pass of the while loop of illinois_method that ran to its end
LoopPass == rf_pc = "loop" /\ rf_err' = "none"
\* the residual of the new point has the sign opposite to fb
Crossed == NumMul(rf_fb, rf_fb').n < 0

C24_EntryIsProbability ==
    (v_pc # "idle" /\ v_key # <<>>) =>
        /\ ~LimbsLess(FloatOne, FloatAdd(v_entry.dw, v_entry.dl))
        /\ ~v_entry.mw.neg
        /\ ~LimbsLess(FloatOne, v_entry.mw.mag)

\* ------------------------------------------------------------------ claims: order of play
\* a step of play() that completes the first trick of a deal in which no put
\* has been called: the card on the table is the leader's, the mover follows
FirstTrickDone ==
    /\ g_rule # "none"
    /\ g_put = "none"
    /\ g_trick = 0
    /\ g_played # NoCard
    /\ g_trick' = 1

\* C25: the second trick is led by the winner of the first, and by the first
\* leader after a tie: whenever play() completes the first trick of a deal
\* without a put, the turn goes to the first leader exactly when
\* first_trick_leader_value takes its "I lead again" branch, and to the
\* follower exactly when first_trick_follower_value takes its "we lead" branch.
C25_SecondTrickLeader ==
    [][FirstTrickDone =>
        LET follower == g_turn
            leader == OpponentOf(g_turn)
            move == g_last'[2]
        IN  /\ g_last'[1] = follower
            /\ (g_turn' = leader) <=> LeaderLeadsAgain(ScoreTrick(g_played, move))
            /\ (g_turn' = follower) <=> FollowerLeadsSecond(ScoreTrick(move, g_played))
            /\ g_turn' = IF ScoreTrick(move, g_played) = 1 THEN follower ELSE leader]_vars

\* a tied first trick without put has been played, and the first leader is to lead again
C25_Witness ==
    /\ g_rule # "none"
    /\ g_err = "none"
    /\ g_put = "none"
    /\ g_trick = 1
    /\ g_played = NoCard
    /\ g_tricks_won = <<0, 0>>
    /\ g_turn = OpponentOf(g_last[1])

\* ------------------------------------------------------------------ claims: mirrored tuples
\* C26: the opponent's tables are built with the mirrored tuple; mirroring
\* twice gives back the tuple that was handed in, and the value of a decided
\* deal in the player's table plus its value in the opponent's table, built
\* with the mirrored tuple, is 1.
C26_MirrorIsInvolution ==
    /\ m_calls = 2 => m_tup = m_pw_tup
    /\ m_deal.seen => SignedAdd(m_deal.mine, m_deal.theirs) = Signed(FALSE, FloatOne)

\* ------------------------------------------------------------------ claims: put
\* play('call_put') and play('fold') as steps of the game
CallStep == g_rule # "none" /\ g_put # "called" /\ g_put' = "called"
FoldStep == g_rule # "none" /\ g_err = "none" /\ g_put = "called" /\ g_last' = <<g_turn, "fold">>
\* the deal is over: the match is won, or a new deal has been dealt
DealOver ==
    /\ g_err' = "none"
    /\ \/ g_winner' # NoOne
       \/ /\ g_put' = "none"
          /\ g_trick' = 0
          /\ g_played' = NoCard
          /\ TotalCount(g_hands'[1]) = 3
          /\ TotalCount(g_hands'[2]) = 3

\* C27: 'call_put' is valid only while no put has been called in the deal and
\* the mover's tally is below 4; right after a call the other player is to move
\* and may only fold or see; a fold adds one point to the caller, to nobody
\* else, and ends the deal; the put state goes back to 'none' only with a new
\* deal, so put is called at most once per deal.
C27_PutProtocol ==
    /\ [](g_rule # "none" =>
            ("call_put" \in ValidWords => g_put = "none" /\ g_tally[g_turn + 1] < 4))
    /\ [][CallStep =>
            /\ g_put = "none"
            /\ g_tally[g_turn + 1] < 4
            /\ g_last' = <<g_turn, "call_put">>
            /\ g_turn' = OpponentOf(g_turn)
            /\ ValidWords' = {"fold", "see"}
            /\ ValidCards' = {}]_vars
    /\ [][FoldStep =>
            /\ g_last = <<OpponentOf(g_turn), "call_put">>
            /\ g_tally' = [g_tally EXCEPT ![OpponentOf(g_turn) + 1] = @ + 1]
            /\ DealOver]_vars
    /\ [][(g_rule # "none" /\ g_put # "none" /\ g_put' = "none") =>
            /\ g_tally' # g_tally
            /\ g_trick' = 0
            /\ TotalCount(g_hands'[1]) = 3
            /\ TotalCount(g_hands'[2]) = 3]_vars

\* the claim on the steps that raise nothing
C27_PutProtocolUnlessRaised ==
    /\ [](g_rule # "none" =>
            ("call_put" \in ValidWords => g_put = "none" /\ g_tally[g_turn + 1] < 4))
    /\ [][CallStep =>
            /\ g_put = "none"
            /\ g_tally[g_turn + 1] < 4
            /\ g_last' = <<g_turn, "call_put">>
            /\ g_turn' = OpponentOf(g_turn)
            /\ ValidWords' = {"fold", "see"}
            /\ ValidCards' = {}]_vars
    /\ [][FoldStep =>
            /\ g_last = <<OpponentOf(g_turn), "call_put">>
            /\ g_tally' = [g_tally EXCEPT ![OpponentOf(g_turn) + 1] = @ + 1]
            /\ (g_err' = "none" => DealOver)]_vars
    /\ [][(g_rule # "none" /\ g_put # "none" /\ g_put' = "none") =>
            /\ g_tally' # g_tally
            /\ g_trick' = 0
            /\ TotalCount(g_hands'[1]) = 3
            /\ TotalCount(g_hands'[2]) = 3]_vars

\* ------------------------------------------------------------------ claims: tricks
\* the cards a player has played in the deal
CardsPlayed(player) == 3 - TotalCount(g_hands[player + 1])
\* play('see') as a step of the game
SeeStep == g_rule # "none" /\ g_put = "called" /\ g_put' = "accepted"

\* between tricks each player has played one card to every trick so far
TricksComplete ==
    g_played = NoCard => CardsPlayed(0) = CardsPlayed(1)
\* the hands differ by at most one card
HandsLevel == CardsPlayed(0) - CardsPlayed(1) \in {-1, 0, 1}
\* with a card on the table, the player to play the next card is not the one who played it
NoDoublePlay ==
    (g_played # NoCard /\ g_put # "called" /\ g_winner = NoOne /\ g_err = "none") =>
        CardsPlayed(g_turn) < CardsPlayed(OpponentOf(g_turn))
\* after 'see' the turn is with the player who called put, who was to play the
\* next card when put was called
SeeKeepsOrder == [][SeeStep => g_turn' = g_last[1]]_vars

\* C28: every trick is made of one card from each player, no player plays two
\* cards to a trick, the hands differ by at most one card, and after 'see' the
\* next card is played by the player who would have played it without the put.
C28_TrickIntegrity ==
    /\ [](g_rule # "none" => TricksComplete /\ HandsLevel /\ NoDoublePlay)
    /\ SeeKeepsOrder

\* the same for a deal in which no put has been called
C28_TrickIntegrityWithoutPut ==
    (g_rule # "none" /\ g_put = "none") => TricksComplete /\ HandsLevel /\ NoDoublePlay

=============================================================================
